---- MODULE Spec2Model ----
(***************************************************************************)
(* A model of the flitter language engine: the abstract syntax tree with   *)
(* its partial evaluator (simplify) and compiler, and the stack-based      *)
(* virtual machine that executes the compiled instruction list.            *)
(*                                                                         *)
(* Values are Vectors: sequences of elements.  An element is a record      *)
(* whose field k tells its kind: a number, a string, a host callable, a    *)
(* Function built by the Func instruction, a nested Program or a Node.     *)
(***************************************************************************)
EXTENDS Integers, Sequences, FiniteSets, TLC

VARIABLES
    scenario,   \* the input of the run: the AST, the run-time variables, the builtin tables
    status,     \* "idle", "running", "returned" or "AssertionError"
    simp,       \* the results of successive calls of simplify on the AST
    runs,       \* the results of the completed runs (plain program first)
    frames,     \* the stack of active _execute calls, innermost last
    contexts,   \* the chain of Contexts: contexts[i+1].parent is contexts[i]
    errors,     \* context.errors, shared by every context of a run
    logs,       \* context.logs
    pragmas,    \* context.pragmas
    heap,       \* the Node objects, by identity; node 0 is context.graph
    calls,      \* the invocations made through call_helper and CallFast, in order
    executed,   \* the addresses of the top-level program that have been executed
    prog,       \* a Program object in the hands of a host: instructions, linked
    dmx,        \* an EntecDMXDriver with its serial stream
    cache       \* the cache of models of the window renderer

\* the objects that take no part in a run of a program
hosts == <<prog, dmx, cache>>

vars == <<scenario, status, simp, runs, frames, contexts, errors, logs, pragmas,
          heap, calls, executed, hosts>>

----------------------------------------------------------------------------
(* Bounds of the model. *)

\* the largest number of let statements of a generated program
MaxTop == 2

\* the number of nested calls of Expression._simplify that the stack holds
StackDepth == 16

----------------------------------------------------------------------------
(* Vectors *)

Num(i) == [k |-> "num", num |-> i]
Str(s) == [k |-> "str", str |-> s]
Host(n) == [k |-> "host", name |-> n]
NodeRef(i) == [k |-> "node", id |-> i]

null_ == <<>>
true_ == <<Num(1)>>
false_ == <<Num(0)>>
minusone_ == <<Num(-1)>>

V1(i) == <<Num(i)>>

\* Vector.objects is not None: the vector holds something that is not a number
HasObjects(v) == \E i \in 1..Len(v) : v[i].k # "num"

IsNumeric(v) == Len(v) > 0 /\ ~HasObjects(v)

ElementTruthy(e) ==
    CASE e.k = "num" -> e.num # 0
      [] e.k = "str" -> e.str # ""
      [] OTHER -> TRUE

as_bool(v) == \E i \in 1..Len(v) : ElementTruthy(v[i])

\* Vector.item(i): the i-th item (from 0) as a vector of length one
item(v, i) == IF i >= 0 /\ i < Len(v) THEN <<v[i + 1]>> ELSE null_

Max(a, b) == IF a >= b THEN a ELSE b

\* the lengths for which arithmetic has a result: the longer a multiple of the
\* shorter
Fits(n, m) == n > 0 /\ m > 0 /\ (n % m = 0 \/ m % n = 0)

\* pairwise arithmetic with the shorter operand cycled over the longer, null
\* when the longer is not a multiple of the shorter
Broadcast(Op(_, _), a, b) ==
    IF ~IsNumeric(a) \/ ~IsNumeric(b) \/ ~Fits(Len(a), Len(b)) THEN null_
    ELSE LET n == Max(Len(a), Len(b))
         IN  [i \in 1..n |-> Num(Op(a[((i - 1) % Len(a)) + 1].num,
                                     b[((i - 1) % Len(b)) + 1].num))]

Plus(x, y) == x + y
Minus(x, y) == x - y

Times(x, y) == x * y

add(a, b) == Broadcast(Plus, a, b)
sub(a, b) == Broadcast(Minus, a, b)
mul(a, b) == Broadcast(Times, a, b)

\* Vector.mul_add(left, right): self*left + right
mul_add(self, left, right) == add(mul(self, left), right)
neg(a) == IF IsNumeric(a) THEN [i \in 1..Len(a) |-> Num(0 - a[i].num)] ELSE null_
pos(a) == IF HasObjects(a) THEN null_ ELSE a

\* Vector.eq: a vector of length one, true or false
eq(a, b) == IF a = b THEN true_ ELSE false_

as_string(v) == IF Len(v) = 1 /\ v[1].k = "str" THEN v[1].str ELSE ""

RECURSIVE Flatten(_)
Flatten(vs) == IF vs = <<>> THEN <<>> ELSE Head(vs) \o Flatten(Tail(vs))

\* Vector._compose: the concatenation of the vectors
compose(vs) == Flatten(vs)

----------------------------------------------------------------------------
(* Dictionaries: functions from a finite set of names *)

EmptyDict == [n \in {} |-> null_]

DictSet(d, key, value) == [n \in DOMAIN d \cup {key} |-> IF n = key THEN value ELSE d[n]]

DictUpdate(d, e) == [n \in DOMAIN d \cup DOMAIN e |-> IF n \in DOMAIN e THEN e[n] ELSE d[n]]

DictDel(d, key) == [n \in DOMAIN d \ {key} |-> d[n]]

----------------------------------------------------------------------------
(* The abstract syntax tree *)

NoneExpr == [type |-> "None"]

Literal(v) == [type |-> "Literal", value |-> v]
Name(n) == [type |-> "Name", name |-> n]
FunctionName(n) == [type |-> "FunctionName", name |-> n]
Unary(t, e) == [type |-> t, expr |-> e]
Binary(t, l, r) == [type |-> t, left |-> l, right |-> r]
PolyBinding(ns, e) == [names |-> ns, expr |-> e]
Binding(n, e) == [name |-> n, expr |-> e]
Let(bs) == [type |-> "Let", bindings |-> bs]
StoreGlobal(bs) == [type |-> "StoreGlobal", bindings |-> bs]
InlineLet(body, bs) == [type |-> "InlineLet", body |-> body, bindings |-> bs]
Sequence(es) == [type |-> "Sequence", expressions |-> es]
InlineSequence(es) == [type |-> "InlineSequence", expressions |-> es]
Top(es) == [type |-> "Top", expressions |-> es]
Pragma(n, e) == [type |-> "Pragma", name |-> n, expr |-> e]
Import(ns, f) == [type |-> "Import", names |-> ns, filename |-> f]
Call(f, as, ks) == [type |-> "Call", function |-> f, args |-> as, keyword_args |-> ks]
For(ns, src, body) == [type |-> "For", names |-> ns, source |-> src, body |-> body]
IfCondition(c, t) == [condition |-> c, then |-> t]
IfElse(ts, e) == [type |-> "IfElse", tests |-> ts, else_ |-> e]
Function(n, ps, e) == [type |-> "Function", name |-> n, parameters |-> ps, expr |-> e]
Attributes(node, bs) == [type |-> "Attributes", node |-> node, bindings |-> bs]
FastAttributes(node, bs) == [type |-> "FastAttributes", node |-> node, bindings |-> bs]
\* the classes Append and Prepend of the tree
NodeAppend(node, children) == [type |-> "Append", node |-> node, children |-> children]
NodePrepend(node, children) == [type |-> "Prepend", node |-> node, children |-> children]

NoOp == Literal(null_)

\* a Node as it stands in a literal of the tree or of an instruction
NodeValue(kind, tags, attrs) == [k |-> "nodevalue", kind |-> kind, tags |-> tags, attrs |-> attrs]

IsLiteral(e) == e.type = "Literal"
\* isinstance(expr, Name): FunctionName is a subclass of Name
IsName(e) == e.type \in {"Name", "FunctionName"}
\* isinstance(expr, Let): StoreGlobal is a subclass of Let
IsLet(e) == e.type \in {"Let", "StoreGlobal"}
IsMaths(e) == e.type \in {"Add", "Subtract", "Multiply"}

----------------------------------------------------------------------------
(* Program: the instruction list and its emitters *)

I0(op) == [op |-> op]
I1(op, v) == [op |-> op, value |-> v]
IJump(op, label) == [op |-> op, label |-> label, offset |-> 0]
IJumpInt(op, label, v) == [op |-> op, label |-> label, offset |-> 0, value |-> v]
ILabel(label) == [op |-> "Label", label |-> label]
ICall(n, names) == [op |-> "Call", ivalue |-> n, tvalue |-> names]
ICallFast(f, n) == [op |-> "CallFast", obj |-> f, value |-> n]
IFunc(name, params) == [op |-> "Func", svalue |-> name, tvalue |-> params]

JumpOps == {"Jump", "BranchTrue", "BranchFalse", "Next", "PushNext"}

\* Program.__cinit__: a program under construction with the compile-time name stack
\* a Program with the compile-time name list; depths keeps, for every
\* instruction, the length the name list had when the instruction was added
NewProgram(lvars) == [code |-> <<>>, next_label |-> 1, lvars |-> lvars, depths |-> <<>>]

Emit(st, instr) ==
    [st EXCEPT !.code = Append(@, instr), !.depths = Append(@, Len(st.lvars))]

\* isinstance(obj, Node)
IsNode(e) == e.k \in {"nodevalue", "node"}

\* Vector.isinstance(Node), for Node objects
IsNodes(v) == Len(v) > 0 /\ \A i \in 1..Len(v) : v[i].k = "node"

\* Program.literal
literal(st, v) ==
    IF Len(v) = 1 /\ IsNode(v[1]) THEN Emit(st, I1("LiteralNode", v[1]))
    ELSE IF \E i \in 1..Len(v) : IsNode(v[i]) THEN Emit(st, I1("LiteralNodes", v))
    ELSE Emit(st, I1("Literal", v))

\* Program.new_label
new_label(st) == [st EXCEPT !.next_label = @ + 1]

\* a link that gives every jump the distance to the instruction before its label
LinkBeforeLabel(code) ==
    LET target(label) == CHOOSE a \in 1..Len(code) : code[a].op = "Label" /\ code[a].label = label
    IN  [a \in 1..Len(code) |->
            IF code[a].op \in JumpOps
            THEN [code[a] EXCEPT !.offset = target(code[a].label) - a - 1]
            ELSE code[a]]

\* Program.link: every jump gets the distance from its address to its label
Link(code) ==
    LET target(label) == CHOOSE a \in 1..Len(code) : code[a].op = "Label" /\ code[a].label = label
    IN  [a \in 1..Len(code) |->
            IF code[a].op \in JumpOps
            THEN [code[a] EXCEPT !.offset = target(code[a].label) - a]
            ELSE code[a]]

\* one instruction of Program.optimize, with the instructions kept so far
OptimizeStep(out, instruction) ==
    IF out = <<>> THEN <<instruction>>
    ELSE LET last == out[Len(out)]
             front == SubSeq(out, 1, Len(out) - 1)
         IN  IF last.op = "Compose" /\ instruction.op = "Compose"
             THEN Append(front, I1("Compose", instruction.value - 1 + last.value))
             ELSE IF last.op = "Compose" /\ instruction.op = "Append"
             THEN Append(front, I1("Append", instruction.value - 1 + last.value))
             ELSE IF last.op = "Mul" /\ instruction.op = "Add"
             THEN Append(front, I0("MulAdd"))
             ELSE IF last.op = "Literal" /\ Len(last.value) = 0
                     /\ instruction.op \in {"Append", "AppendRoot"}
             THEN front
             ELSE Append(out, instruction)

RECURSIVE OptimizeFrom(_, _, _)
OptimizeFrom(code, i, out) ==
    IF i > Len(code) THEN out ELSE OptimizeFrom(code, i + 1, OptimizeStep(out, code[i]))

\* Program.optimize
Optimize(code) == OptimizeFrom(code, 1, <<>>)

\* Program.__cinit__ with the instructions that _compile has emitted
Unlinked(code) == [instructions |-> code, linked |-> FALSE, raised |-> ""]

\* Program.optimize without its assert
optimize_linked(p) == [p EXCEPT !.instructions = Optimize(@)]

\* Program.optimize: assert not self.linked
optimize(p) ==
    IF p.linked THEN [p EXCEPT !.raised = "Cannot optimize a linked program"]
    ELSE [p EXCEPT !.instructions = Optimize(@)]

\* Program.link
link(p) == [p EXCEPT !.instructions = Link(@), !.linked = TRUE]

\* Program._execute without its assert
execute_unlinked(p) == p

\* Program._execute: assert self.linked
execute(p) == IF p.linked THEN p ELSE [p EXCEPT !.raised = "Program has not been linked"]

\* optimize, then link: the second half of Expression.compile and of Function._compile
link_optimized(p) == LET o == optimize(p) IN IF o.raised # "" THEN o ELSE link(o)

----------------------------------------------------------------------------
(* The compiler: Expression._compile, by type of expression.  The state of  *)
(* a compilation is the program under construction with the list lvars of   *)
(* the names that are local at this point.                                  *)

\* the types that leave no value on the stack
NoValueTypes == {"Let", "StoreGlobal", "Import", "Function", "Pragma"}

\* Name._compile: the innermost local of that name, or a lookup by name
CompileName(st, name) ==
    LET n == Len(st.lvars)
        found == {i \in 0..(n - 1) : st.lvars[n - i] = name}
    IN  IF found # {}
        THEN Emit(st, I1("LocalLoad", CHOOSE i \in found : \A j \in found : i <= j))
        ELSE Emit(st, I1("Name", name))

\* callable(obj) and not hasattr(obj, 'context_func'), for Call._compile
IsCallable(e) == e.k = "host"
IsContextFunc(e) == e.k = "host" /\ e.name = "sample"

RECURSIVE Compile(_, _), CompileAll(_, _, _), CompileBindings(_, _, _),
          CompileStoreGlobal(_, _, _), CompileKeywords(_, _, _), CompileTests(_, _, _, _),
          CompileParameters(_, _, _), CompileAttributes(_, _, _), CompileTop(_, _, _),
          CompileSequence(_, _, _, _)

\* a tuple of expressions, one after the other
CompileAll(exprs, i, st) ==
    IF i > Len(exprs) THEN st ELSE CompileAll(exprs, i + 1, Compile(exprs[i], st))

\* the bindings of Let._compile and InlineLet._compile
CompileBindings(bindings, i, st) ==
    IF i > Len(bindings) THEN st
    ELSE LET s1 == Compile(bindings[i].expr, st)
             s2 == Emit(s1, I1("LocalPush", Len(bindings[i].names)))
         IN  CompileBindings(bindings, i + 1, [s2 EXCEPT !.lvars = @ \o bindings[i].names])

\* StoreGlobal._compile
CompileStoreGlobal(bindings, i, st) ==
    IF i > Len(bindings) THEN st
    ELSE CompileStoreGlobal(bindings, i + 1,
             Emit(Compile(bindings[i].expr, st), I1("StoreGlobal", bindings[i].names[1])))

CompileKeywords(keyword_args, i, st) ==
    IF i > Len(keyword_args) THEN st
    ELSE CompileKeywords(keyword_args, i + 1, Compile(keyword_args[i].expr, st))

\* the tests of IfElse._compile; END is the label after the whole expression
CompileTests(tests, i, END, st) ==
    IF i > Len(tests) THEN st
    ELSE LET NEXT == st.next_label
             s1 == Compile(tests[i].condition, new_label(st))
             s2 == Emit(s1, IJump("BranchFalse", NEXT))
             s3 == Compile(tests[i].then, s2)
             s4 == Emit(Emit(s3, IJump("Jump", END)), ILabel(NEXT))
         IN  CompileTests(tests, i + 1, END, s4)

\* the default values of Function._compile
CompileParameters(parameters, i, st) ==
    IF i > Len(parameters) THEN st
    ELSE CompileParameters(parameters, i + 1,
             IF parameters[i].expr = NoneExpr THEN literal(st, null_)
             ELSE Compile(parameters[i].expr, st))

\* the attribute bindings of Attributes._compile
CompileAttributes(bindings, i, st) ==
    IF i > Len(bindings) THEN st
    ELSE CompileAttributes(bindings, i + 1,
             Emit(Compile(bindings[i].expr, st), I1("Attribute", bindings[i].name)))

\* the loop of Sequence._compile; m counts the expressions that leave a value
CompileSequence(exprs, i, m, st) ==
    IF i > Len(exprs) THEN [st |-> st, m |-> m]
    ELSE CompileSequence(exprs, i + 1,
             IF exprs[i].type \in NoValueTypes THEN m ELSE m + 1, Compile(exprs[i], st))

\* the loop of Top._compile
CompileTop(exprs, i, st) ==
    IF i > Len(exprs) THEN st
    ELSE LET s1 == Compile(exprs[i], st)
         IN  CompileTop(exprs, i + 1,
                 IF exprs[i].type \in NoValueTypes THEN s1 ELSE Emit(s1, I0("AppendRoot")))

\* the LocalLoad/StoreGlobal pairs that end Top._compile: enumerate(reversed(lvars))
RECURSIVE StoreGlobals(_, _)
StoreGlobals(st, i) ==
    IF i >= Len(st.lvars) THEN st
    ELSE StoreGlobals(Emit(Emit(st, I1("LocalLoad", i)),
                           I1("StoreGlobal", st.lvars[Len(st.lvars) - i])), i + 1)

\* InlineLet._compile drops as many locals as it has bindings
InlineLetDropCount(bindings) == Len(bindings)

Compile(expr, st) ==
    CASE expr.type = "Top" ->
            LET s1 == CompileTop(expr.expressions, 1, st)
                s2 == StoreGlobals(s1, 0)
            IN  IF Len(s2.lvars) > 0 THEN Emit(s2, I1("LocalDrop", Len(s2.lvars))) ELSE s2
      [] expr.type = "Pragma" ->
            Emit(Compile(expr.expr, st), I1("Pragma", expr.name))
      [] expr.type = "Import" ->
            LET s1 == Emit(Compile(expr.filename, st), I1("Import", expr.names))
            IN  [s1 EXCEPT !.lvars = @ \o expr.names]
      [] expr.type = "Sequence" ->
            LET n == Len(st.lvars)
                r == CompileSequence(expr.expressions, 1, 0, st)
                s1 == IF Len(r.st.lvars) > n
                      THEN [Emit(r.st, I1("LocalDrop", Len(r.st.lvars) - n))
                                EXCEPT !.lvars = SubSeq(st.lvars, 1, n)]
                      ELSE r.st
            IN  IF r.m > 1 THEN Emit(s1, I1("Compose", r.m))
                ELSE IF r.m = 0 THEN literal(s1, null_)
                ELSE s1
      [] expr.type = "InlineSequence" ->
            Emit(CompileAll(expr.expressions, 1, st), I1("Compose", Len(expr.expressions)))
      [] expr.type = "Literal" -> literal(st, expr.value)
      [] expr.type \in {"Name", "FunctionName"} -> CompileName(st, expr.name)
      [] expr.type = "Negative" -> Emit(Compile(expr.expr, st), I0("Neg"))
      [] expr.type = "Positive" -> Emit(Compile(expr.expr, st), I0("Pos"))
      [] expr.type = "Add" -> Emit(Compile(expr.right, Compile(expr.left, st)), I0("Add"))
      [] expr.type = "Subtract" -> Emit(Compile(expr.right, Compile(expr.left, st)), I0("Sub"))
      [] expr.type = "Multiply" -> Emit(Compile(expr.right, Compile(expr.left, st)), I0("Mul"))
      [] expr.type = "Append" ->
            Emit(Compile(expr.children, Compile(expr.node, st)), I1("Append", 1))
      [] expr.type = "Prepend" ->
            Emit(Compile(expr.children, Compile(expr.node, st)), I0("Prepend"))
      [] expr.type = "And" ->
            LET end_label == st.next_label
                s1 == Compile(expr.left, new_label(st))
                s2 == Emit(Emit(Emit(s1, I0("Dup")), IJump("BranchFalse", end_label)),
                           I1("Drop", 1))
            IN  Emit(Compile(expr.right, s2), ILabel(end_label))
      [] expr.type = "Or" ->
            LET end_label == st.next_label
                s1 == Compile(expr.left, new_label(st))
                s2 == Emit(Emit(Emit(s1, I0("Dup")), IJump("BranchTrue", end_label)),
                           I1("Drop", 1))
            IN  Emit(Compile(expr.right, s2), ILabel(end_label))
      [] expr.type = "Call" ->
            LET s1 == CompileAll(expr.args, 1, st)
                f == expr.function
                fast == /\ IsLiteral(f) /\ expr.keyword_args = <<>>
                        /\ Len(f.value) = 1 /\ f.value[1].k # "num"
                        /\ IsCallable(f.value[1]) /\ ~IsContextFunc(f.value[1])
                s2 == CompileKeywords(expr.keyword_args, 1, s1)
                names == [i \in 1..Len(expr.keyword_args) |-> expr.keyword_args[i].name]
            IN  IF fast THEN Emit(s1, ICallFast(f.value[1], Len(expr.args)))
                ELSE Emit(Compile(f, s2), ICall(Len(expr.args), names))
      [] expr.type = "Let" -> CompileBindings(expr.bindings, 1, st)
      [] expr.type = "StoreGlobal" -> CompileStoreGlobal(expr.bindings, 1, st)
      [] expr.type = "InlineLet" ->
            LET n == Len(st.lvars)
                s1 == CompileBindings(expr.bindings, 1, st)
                s2 == Compile(expr.body, s1)
                s3 == Emit(s2, I1("LocalDrop", InlineLetDropCount(expr.bindings)))
            IN  [s3 EXCEPT !.lvars = SubSeq(@, 1, n)]
      [] expr.type = "For" ->
            LET s0 == Emit(Compile(expr.source, st), I0("BeginFor"))
                START == s0.next_label
                END == s0.next_label + 1
                n == Len(expr.names)
                s1 == [new_label(new_label(s0)) EXCEPT !.lvars = @ \o expr.names]
                s2 == Emit(Emit(Emit(literal(s1, null_), I1("LocalPush", n)), ILabel(START)),
                           IJumpInt("Next", END, n))
                s3 == Compile(expr.body, s2)
                s4 == Emit(Emit(Emit(Emit(s3, IJump("Jump", START)), ILabel(END)),
                                I1("LocalDrop", n)), I0("EndForCompose"))
            IN  [s4 EXCEPT !.lvars = SubSeq(@, 1, Len(@) - n)]
      [] expr.type = "IfElse" ->
            LET END == st.next_label
                s1 == CompileTests(expr.tests, 1, END, new_label(st))
                s2 == IF expr.else_ # NoneExpr THEN Compile(expr.else_, s1)
                      ELSE literal(s1, null_)
            IN  Emit(s2, ILabel(END))
      [] expr.type = "Function" ->
            LET names == [i \in 1..Len(expr.parameters) |-> expr.parameters[i].name]
                s1 == CompileParameters(expr.parameters, 1, st)
                body == Compile(expr.expr, NewProgram(s1.lvars \o names))
                linked == link_optimized(Unlinked(body.code))
                program == [k |-> "program", code |-> linked.instructions,
                            linked |-> linked.linked]
                s2 == Emit(Emit(literal(s1, <<program>>), IFunc(expr.name, names)),
                           I1("LocalPush", 1))
            IN  [s2 EXCEPT !.lvars = Append(@, expr.name)]
      [] expr.type = "FastAttributes" ->
            CompileAttributes(expr.bindings, 1, Compile(expr.node, st))
      [] expr.type = "Attributes" ->
            LET s1 == Compile(expr.node, st)
            IN  IF IsLiteral(expr.node) /\ Len(expr.node.value) = 1
                THEN Emit(CompileAttributes(expr.bindings, 1, Emit(s1, I0("SetNodeScope"))),
                          I0("ClearNodeScope"))
                ELSE LET START == s1.next_label
                         END == s1.next_label + 1
                         s2 == Emit(Emit(s1, I0("Dup")), I0("BeginFor"))
                         s3 == Emit(Emit(Emit(new_label(new_label(s2)), ILabel(START)),
                                         IJump("PushNext", END)), I0("SetNodeScope"))
                         s4 == CompileAttributes(expr.bindings, 1, s3)
                         s5 == Emit(Emit(Emit(Emit(s4, I1("Drop", 1)), IJump("Jump", START)),
                                         ILabel(END)), I0("EndFor"))
                     IN  Emit(s5, I0("ClearNodeScope"))

\* Expression.compile: compile with no locals, optimize, link
Compiled(expr) == link_optimized(Unlinked(Compile(expr, NewProgram(<<>>)).code))

compile(expr) == Compiled(expr).instructions

----------------------------------------------------------------------------
(* The host: builtin functions, and the loader of modules *)

\* what a host callable does with its arguments: a result, or an exception
HostCall(name, args, kwargs) ==
    CASE name = "len" ->
            IF Len(args) = 1 /\ DOMAIN kwargs = {}
            THEN [raised |-> FALSE, value |-> V1(Len(args[1]))]
            ELSE [raised |-> TRUE, value |-> null_]
      [] name = "debug" ->
            IF Len(args) = 1 /\ DOMAIN kwargs = {}
            THEN [raised |-> FALSE, value |-> args[1]]
            ELSE IF Len(args) = 0 /\ DOMAIN kwargs = {"value"}
            THEN [raised |-> FALSE, value |-> kwargs["value"]]
            ELSE [raised |-> TRUE, value |-> null_]
      [] name = "sample" ->
            IF Len(args) >= 1
            THEN [raised |-> FALSE, value |-> args[Len(args)]]
            ELSE [raised |-> TRUE, value |-> null_]
      [] OTHER -> [raised |-> TRUE, value |-> null_]

\* the tables of builtins, from the tables of host functions of the scenario
static_builtins(sc) ==
    DictUpdate([n \in {"true", "false", "null"} |->
                    CASE n = "true" -> true_ [] n = "false" -> false_ [] OTHER -> null_],
               sc.STATIC_FUNCTIONS)

dynamic_builtins(sc) ==
    DictUpdate([n \in {"debug"} |-> <<Host("debug")>>], sc.DYNAMIC_FUNCTIONS)

\* the tables merged the other way round: a dynamic builtin hides a static one
all_builtins_static_first(sc) ==
    DictUpdate(DictUpdate(EmptyDict, static_builtins(sc)), dynamic_builtins(sc))

\* all_builtins: the dynamic builtins, then the static ones over them
all_builtins(sc) == DictUpdate(DictUpdate(EmptyDict, dynamic_builtins(sc)), static_builtins(sc))

----------------------------------------------------------------------------
(* The virtual machine *)

NoPending == [kind |-> "none"]

\* an activation of Program._execute.  stack and lvars are VectorStack objects
\* that other activations may be using too: own names the two objects, and the
\* innermost activation that uses an object holds its current contents
Frame(kind, code, stack, lvars, ctx, ret, own) ==
    [kind |-> kind, code |-> code, pc |-> 0, stack |-> stack, lvars |-> lvars,
     loops |-> <<>>, node_scope |-> 0, ctx |-> ctx, pending |-> NoPending, ret |-> ret,
     own |-> own]

NoRet == [top |-> 0, lvars_top |-> 0, m |-> 0, saved_path |-> "", before |-> <<>>]

\* self.stack and self.lvars of the Program read from path
OwnStacks(path) ==
    [stack |-> [k |-> "program", path |-> path], lvars |-> [k |-> "program", path |-> path]]

\* the contents of a VectorStack object: those held by the innermost activation
\* that uses it, or initial when no activation does
CurrentStack(fs, object, initial) ==
    LET users == {i \in 1..Len(fs) : fs[i].own.stack = object}
    IN  IF users = {} THEN initial
        ELSE fs[CHOOSE i \in users : \A j \in users : j <= i].stack

CurrentLvars(fs, object, initial) ==
    LET users == {i \in 1..Len(fs) : fs[i].own.lvars = object}
    IN  IF users = {} THEN initial
        ELSE fs[CHOOSE i \in users : \A j \in users : j <= i].lvars

\* the activations fs seen after an activation that used the objects of own has
\* ended and left them with the contents stack and lvars
StacksLeft(fs, own, stack, lvars) ==
    [i \in 1..Len(fs) |->
        [fs[i] EXCEPT !.stack = IF fs[i].own.stack = own.stack THEN stack ELSE @,
                      !.lvars = IF fs[i].own.lvars = own.lvars THEN lvars ELSE @]]

F == frames[Len(frames)]

SetTop(f) == [frames EXCEPT ![Len(frames)] = f]

Advance(f) == [f EXCEPT !.pc = @ + 1]

\* the top activation is about to fetch the instruction at its pc
Fetching == status = "running" /\ F.pending = NoPending /\ F.pc >= 0 /\ F.pc < Len(F.code)

Instruction == F.code[F.pc + 1]

Executed == IF Len(frames) = 1 THEN executed \cup {F.pc} ELSE executed

push(stack, v) == Append(stack, v)
peek(stack) == stack[Len(stack)]
peek_at(stack, offset) == stack[Len(stack) - offset]
drop(stack, n) == SubSeq(stack, 1, Len(stack) - n)
poke(stack, v) == [stack EXCEPT ![Len(stack)] = v]
poke_at(stack, offset, v) == [stack EXCEPT ![Len(stack) - offset] = v]
pop_tuple(stack, n) == SubSeq(stack, Len(stack) - n + 1, Len(stack))
pop_dict(stack, keys) ==
    [n \in {keys[i] : i \in 1..Len(keys)} |->
        LET last == CHOOSE i \in 1..Len(keys) : keys[i] = n /\ \A j \in 1..Len(keys) : keys[j] = n => j <= i
        IN  stack[Len(stack) - Len(keys) + last]]
\* the top m entries composed with the topmost first
pop_composed_top_first(stack, m) ==
    LET vectors == pop_tuple(stack, m)
    IN  Flatten([i \in 1..m |-> vectors[m + 1 - i]])

\* pop_composed: the vector that the top m entries of the stack make, the
\* deepest first; it is numeric when no entry holds objects, else its objects
\* are the numbers (as floats) and the objects of the entries
pop_composed(stack, m) ==
    IF m = 1 THEN peek(stack)
    ELSE IF m = 0 THEN null_
    ELSE LET vectors == pop_tuple(stack, m)
             numeric == \A i \in 1..m : ~HasObjects(vectors[i])
             n == Len(Flatten(vectors))
             numbers == Flatten(vectors)
             objects == Flatten([i \in 1..m |->
                            IF ~HasObjects(vectors[i])
                            THEN [k \in 1..Len(vectors[i]) |-> Num(vectors[i][k].num)]
                            ELSE vectors[i]])
         IN  IF n = 0 THEN null_ ELSE IF numeric THEN numbers ELSE objects

Error(kind, what) == [kind |-> kind, what |-> what]

\* the Node objects
RootId == 1
\* attrs is what _attributes holds as seen through the node; map names the
\* dict object when it is not the one the node was made with, and shared is
\* _attributes_shared
NewNode(kind, tags, attrs) ==
    [kind |-> kind, tags |-> tags, attrs |-> attrs, parent |-> 0, children |-> <<>>,
     map |-> <<>>, shared |-> FALSE]
EmptyHeap == <<NewNode("root", {}, EmptyDict)>>

\* the dict object that is the node's _attributes
MapOf(h, id) == IF h[id].map = <<>> THEN <<id, 0>> ELSE h[id].map

\* the nodes whose _attributes is the same dict object
Aliases(h, id) == {j \in 1..Len(h) : MapOf(h, j) = MapOf(h, id)}

\* PyDict_Copy(attributes): a dict object that no node holds
CopiedMap(h, id) ==
    <<id, CHOOSE g \in 0..Len(h) : \A j \in 1..Len(h) : MapOf(h, j) # <<id, g>>>>

\* a node keeps a dict that other nodes hold
KeepShared(h, id) == h

\* if node._attributes_shared: node._attributes = PyDict_Copy(node._attributes);
\* node._attributes_shared = False
Unshare(h, id) ==
    IF h[id].shared THEN [h EXCEPT ![id].map = CopiedMap(h, id), ![id].shared = FALSE] ELSE h

\* PyDict_SetItem on the node's dict whatever the length of the value
WriteAttributeAlways(h, id, name, value) ==
    [j \in 1..Len(h) |->
        IF j \in Aliases(h, id) THEN [h[j] EXCEPT !.attrs = DictSet(@, name, value)] ELSE h[j]]

\* PyDict_SetItem and PyDict_DelItem on the node's dict: every node that holds
\* the dict sees the change
WriteAttribute(h, id, name, value) ==
    [j \in 1..Len(h) |->
        IF j \in Aliases(h, id)
        THEN [h[j] EXCEPT !.attrs = IF Len(value) > 0 THEN DictSet(@, name, value)
                                   ELSE DictDel(@, name)]
        ELSE h[j]]

\* Node.copy: a new node with no parent, with copies of the children
RECURSIVE CopyNode(_, _), CopyChildren(_, _, _, _)
CopyNode(h, id) ==
    LET new == Len(h) + 1
        h1 == Append([h EXCEPT ![id].shared = TRUE],
                     [h[id] EXCEPT !.parent = 0, !.children = <<>>,
                                   !.map = MapOf(h, id), !.shared = TRUE])
    IN  [heap |-> CopyChildren(h1, h[id].children, 1, new), id |-> new]

CopyChildren(h, ids, i, parent) ==
    IF i > Len(ids) THEN h
    ELSE LET c == CopyNode(h, ids[i])
         IN  CopyChildren([c.heap EXCEPT ![c.id].parent = parent,
                                         ![parent].children = Append(@, c.id)],
                          ids, i + 1, parent)

RECURSIVE CopyNodes(_, _, _, _)
CopyNodes(h, v, i, out) ==
    IF i > Len(v) THEN [heap |-> h, value |-> out]
    ELSE IF v[i].k = "node"
    THEN LET c == CopyNode(h, v[i].id)
         IN  CopyNodes(c.heap, v, i + 1, Append(out, NodeRef(c.id)))
    ELSE IF v[i].k = "nodevalue"
    THEN CopyNodes(Append(h, NewNode(v[i].kind, v[i].tags, v[i].attrs)), v, i + 1,
                   Append(out, NodeRef(Len(h) + 1)))
    ELSE CopyNodes(h, v, i + 1, Append(out, v[i]))

\* Vector.copynodes
copynodes(h, v) == CopyNodes(h, v, 1, <<>>)

\* the loop of AppendRoot without its test of _parent
RECURSIVE AppendRootNodesAll(_, _, _)
AppendRootNodesAll(h, v, i) ==
    IF i > Len(v) THEN h
    ELSE IF v[i].k = "node"
    THEN AppendRootNodesAll([h EXCEPT ![v[i].id].parent = RootId,
                                      ![RootId].children = Append(@, v[i].id)], v, i + 1)
    ELSE AppendRootNodesAll(h, v, i + 1)

\* the loop of the AppendRoot instruction: graph.append for every node of the
\* vector whose _parent is None
RECURSIVE AppendRootNodes(_, _, _)
AppendRootNodes(h, v, i) ==
    IF i > Len(v) THEN h
    ELSE IF v[i].k = "node" /\ h[v[i].id].parent = 0
    THEN AppendRootNodes([h EXCEPT ![v[i].id].parent = RootId,
                                   ![RootId].children = Append(@, v[i].id)], v, i + 1)
    ELSE AppendRootNodes(h, v, i + 1)

\* Node.append and Node.insert of a node that has no parent
Attach(h, parent, id, first) ==
    [h EXCEPT ![id].parent = parent,
              ![parent].children = IF first THEN <<id>> \o @ ELSE Append(@, id)]

\* a node that already has a parent is not attached a second time: a copy is
AttachOrCopy(h, parent, id, copy, first) ==
    IF copy \/ h[id].parent # 0
    THEN LET c == CopyNode(h, id) IN Attach(c.heap, parent, c.id, first)
    ELSE Attach(h, parent, id, first)

\* Node.append_vector(vector, copy): the nodes of the vector, in order
RECURSIVE append_vector(_, _, _, _, _)
append_vector(h, parent, v, i, copy) ==
    IF i > Len(v) THEN h
    ELSE IF v[i].k = "node"
    THEN append_vector(AttachOrCopy(h, parent, v[i].id, copy, FALSE), parent, v, i + 1, copy)
    ELSE append_vector(h, parent, v, i + 1, copy)

\* Node.insert of the nodes of the vector, from the last to the first
RECURSIVE InsertReversed(_, _, _, _, _)
InsertReversed(h, parent, v, i, copy) ==
    IF i < 1 THEN h
    ELSE IF v[i].k = "node"
    THEN InsertReversed(AttachOrCopy(h, parent, v[i].id, copy, TRUE), parent, v, i - 1, copy)
    ELSE InsertReversed(h, parent, v, i - 1, copy)

\* the loops of the Append instruction with the nodes themselves for every
\* element of r1
RECURSIVE AppendVectorsNoCopy(_, _, _, _, _)
AppendVectorsNoCopy(h, r1, stack, i, j) ==
    IF i < 0 THEN h
    ELSE IF j > Len(r1) \/ ~HasObjects(peek_at(stack, i))
    THEN AppendVectorsNoCopy(h, r1, stack, i - 1, 1)
    ELSE AppendVectorsNoCopy(IF r1[j].k = "node"
                             THEN append_vector(h, r1[j].id, peek_at(stack, i), 1, FALSE)
                             ELSE h,
                             r1, stack, i, j + 1)

\* the loops of the Append instruction: the vectors at offsets i..0 of the
\* stack are appended to the nodes j.. of r1; the last element of r1 gets the
\* nodes themselves
RECURSIVE AppendVectors(_, _, _, _, _)
AppendVectors(h, r1, stack, i, j) ==
    IF i < 0 THEN h
    ELSE IF j > Len(r1) \/ ~HasObjects(peek_at(stack, i))
    THEN AppendVectors(h, r1, stack, i - 1, 1)
    ELSE AppendVectors(IF r1[j].k = "node"
                       THEN append_vector(h, r1[j].id, peek_at(stack, i), 1, j # Len(r1))
                       ELSE h,
                       r1, stack, i, j + 1)

\* the loop of the Prepend instruction over the nodes of r1
RECURSIVE PrependVector(_, _, _, _)
PrependVector(h, r1, r2, j) ==
    IF j > Len(r1) THEN h
    ELSE PrependVector(IF r1[j].k = "node"
                       THEN InsertReversed(h, r1[j].id, r2, Len(r2), j # Len(r1))
                       ELSE h,
                       r1, r2, j + 1)

\* the Attribute instruction on every node of the vector
RECURSIVE SetAttributes(_, _, _, _, _)
SetAttributes(h, v, i, name, value) ==
    IF i > Len(v) THEN h
    ELSE IF v[i].k = "node"
    THEN SetAttributes(WriteAttribute(Unshare(h, v[i].id), v[i].id, name, value),
                       v, i + 1, name, value)
    ELSE SetAttributes(h, v, i + 1, name, value)

\* n[name] = value for every node of the vector
RECURSIVE SetItems(_, _, _, _, _)
SetItems(h, v, i, name, value) ==
    IF i > Len(v) THEN h
    ELSE SetItems(WriteAttribute(Unshare(h, v[i].id), v[i].id, name, value),
                  v, i + 1, name, value)

----------------------------------------------------------------------------
(* Program.run and the instructions of Program._execute *)

RECURSIVE Structure(_, _)
\* a node with its children, without the identities
Structure(h, id) ==
    [kind |-> h[id].kind, tags |-> h[id].tags, attrs |-> h[id].attrs,
     children |-> [i \in 1..Len(h[id].children) |-> Structure(h, h[id].children[i])]]

\* what a finished run leaves
Result(st) ==
    [status |-> st, graph |-> Structure(heap, RootId), pragmas |-> pragmas,
     variables |-> contexts[1].variables, errors |-> errors,
     stack |-> frames[1].stack, lvars |-> frames[1].lvars]

\* Context(): a new root; the root of the run before keeps its children and
\* is the last object of the heap from now on
NewRoot(h) ==
    IF h[RootId].children = <<>> THEN h
    ELSE Append([id \in 1..Len(h) |->
                    IF id = RootId THEN [h[id] EXCEPT !.children = <<>>]
                    ELSE IF h[id].parent = RootId THEN [h[id] EXCEPT !.parent = Len(h) + 1]
                    ELSE h[id]],
                h[RootId])

\* Program.run: a new Context, then _execute on the program's own stacks
Begin(code) ==
    /\ status' = "running"
    /\ frames' = <<Frame("run", code, <<>>, <<>>, 1, NoRet, OwnStacks(scenario.path))>>
    /\ contexts' = <<[variables |-> scenario.variables, path |-> scenario.path]>>
    /\ errors' = {}
    /\ logs' = {}
    /\ pragmas' = EmptyDict
    /\ heap' = IF scenario.family = "objects" THEN NewRoot(heap) ELSE scenario.heap
    /\ calls' = <<>>
    /\ executed' = {}

Run ==
    /\ status = "idle"
    /\ Begin(compile(scenario.ast))
    /\ UNCHANGED <<hosts, scenario, simp, runs>>

\* the end of Program.run: the asserts on the program's stacks
Finish ==
    /\ status = "running"
    /\ Len(frames) = 1
    /\ F.pending = NoPending
    /\ ~(F.pc >= 0 /\ F.pc < Len(F.code))
    /\ status' = IF F.pc = Len(F.code) /\ F.stack = <<>> /\ F.lvars = <<>>
                 THEN "returned" ELSE "AssertionError"
    /\ runs' = Append(runs, Result(status'))
    /\ UNCHANGED <<hosts, scenario, simp, frames, contexts, errors, logs, pragmas, heap, calls,
                   executed>>

\* Dup, Drop, Label, Literal, Compose
StackInstruction ==
    /\ Fetching
    /\ Instruction.op \in {"Dup", "Drop", "Label", "Literal", "Compose"}
    /\ LET i == Instruction
           stack == CASE i.op = "Dup" -> push(F.stack, peek(F.stack))
                      [] i.op = "Drop" -> drop(F.stack, i.value)
                      [] i.op = "Label" -> F.stack
                      [] i.op = "Literal" -> push(F.stack, i.value)
                      [] i.op = "Compose" ->
                            push(drop(F.stack, i.value), pop_composed(F.stack, i.value))
       IN  frames' = SetTop(Advance([F EXCEPT !.stack = stack]))
    /\ executed' = Executed
    /\ UNCHANGED <<hosts, scenario, status, simp, runs, contexts, errors, logs, pragmas, heap, calls>>

\* conditional branches that pop the condition and never jump
JumpInstructionFallThrough ==
    /\ Fetching
    /\ Instruction.op \in {"Jump", "BranchTrue", "BranchFalse"}
    /\ frames' = SetTop([F EXCEPT
            !.stack = IF Instruction.op = "Jump" THEN @ ELSE drop(@, 1),
            !.pc = IF Instruction.op = "Jump" THEN @ + 1 + Instruction.offset ELSE @ + 1])
    /\ executed' = Executed
    /\ UNCHANGED <<hosts, scenario, status, simp, runs, contexts, errors, logs, pragmas, heap, calls>>

\* Jump, BranchTrue, BranchFalse
JumpInstruction ==
    /\ Fetching
    /\ Instruction.op \in {"Jump", "BranchTrue", "BranchFalse"}
    /\ LET i == Instruction
           taken == CASE i.op = "Jump" -> TRUE
                      [] i.op = "BranchTrue" -> as_bool(peek(F.stack))
                      [] i.op = "BranchFalse" -> ~as_bool(peek(F.stack))
           stack == IF i.op = "Jump" THEN F.stack ELSE drop(F.stack, 1)
       IN  frames' = SetTop([F EXCEPT !.stack = stack,
                                      !.pc = IF taken THEN @ + 1 + i.offset ELSE @ + 1])
    /\ executed' = Executed
    /\ UNCHANGED <<hosts, scenario, status, simp, runs, contexts, errors, logs, pragmas, heap, calls>>

\* Pragma
PragmaInstruction ==
    /\ Fetching
    /\ Instruction.op = "Pragma"
    /\ pragmas' = DictSet(pragmas, Instruction.value, peek(F.stack))
    /\ frames' = SetTop(Advance([F EXCEPT !.stack = drop(@, 1)]))
    /\ executed' = Executed
    /\ UNCHANGED <<hosts, scenario, status, simp, runs, contexts, errors, logs, heap, calls>>

\* LiteralNode, LiteralNodes: copies of the nodes of the instruction
\* LiteralNode and LiteralNodes pushing the nodes of the instruction themselves
LiteralNodeInstructionShared ==
    /\ Fetching
    /\ Instruction.op \in {"LiteralNode", "LiteralNodes"}
    /\ LET v == IF Instruction.op = "LiteralNode" THEN <<Instruction.value>>
                ELSE Instruction.value
           c == IF IsNodes(v) THEN [heap |-> heap, value |-> v] ELSE copynodes(heap, v)
       IN  /\ heap' = c.heap
           /\ frames' = SetTop(Advance([F EXCEPT !.stack = push(@, c.value)]))
    /\ executed' = Executed
    /\ UNCHANGED <<hosts, scenario, status, simp, runs, contexts, errors, logs, pragmas, calls>>

\* LiteralNode, LiteralNodes
LiteralNodeInstruction ==
    /\ Fetching
    /\ Instruction.op \in {"LiteralNode", "LiteralNodes"}
    /\ LET v == IF Instruction.op = "LiteralNode" THEN <<Instruction.value>>
                ELSE Instruction.value
           c == copynodes(heap, v)
       IN  /\ heap' = c.heap
           /\ frames' = SetTop(Advance([F EXCEPT !.stack = push(@, c.value)]))
    /\ executed' = Executed
    /\ UNCHANGED <<hosts, scenario, status, simp, runs, contexts, errors, logs, pragmas, calls>>

\* the items of the vector pushed last item first
LocalPushReversed(r1, n) == IF n = 1 THEN <<r1>> ELSE [i \in 1..n |-> item(r1, n - i)]

\* the locals pushed by LocalPush n from the vector on top of the stack
LocalPushValues(r1, n) == IF n = 1 THEN <<r1>> ELSE [i \in 1..n |-> item(r1, i - 1)]

\* LocalDrop, LocalLoad, LocalPush
LocalInstruction ==
    /\ Fetching
    /\ Instruction.op \in {"LocalDrop", "LocalLoad", "LocalPush"}
    /\ LET i == Instruction
       IN  CASE i.op = "LocalDrop" ->
                  /\ frames' = SetTop(Advance([F EXCEPT !.lvars = drop(@, i.value)]))
                  /\ heap' = heap
             [] i.op = "LocalLoad" ->
                  LET c == copynodes(heap, peek_at(F.lvars, i.value))
                  IN  /\ frames' = SetTop(Advance([F EXCEPT !.stack = push(@, c.value)]))
                      /\ heap' = c.heap
             [] i.op = "LocalPush" ->
                  /\ frames' = SetTop(Advance(
                        [F EXCEPT !.stack = drop(@, 1),
                                  !.lvars = @ \o LocalPushValues(peek(F.stack), i.value)]))
                  /\ heap' = heap
    /\ executed' = Executed
    /\ UNCHANGED <<hosts, scenario, status, simp, runs, contexts, errors, logs, pragmas, calls>>

\* the dictionaries the Name instruction looks the name up in, in order
NameSources(variables, builtins, node_scope) == <<variables, builtins, node_scope>>

\* the first dictionary that holds the name, or 0
NameSource(sources, name) ==
    LET found == {i \in 1..Len(sources) : name \in DOMAIN sources[i]}
    IN  IF found = {} THEN 0 ELSE CHOOSE i \in found : \A j \in found : i <= j

\* Name
NameInstruction ==
    /\ Fetching
    /\ Instruction.op = "Name"
    /\ LET name == Instruction.value
           scope == IF F.node_scope = 0 THEN EmptyDict ELSE heap[F.node_scope].attrs
           sources == NameSources(contexts[F.ctx].variables, all_builtins(scenario), scope)
           src == NameSource(sources, name)
       IN  IF src # 0
           THEN /\ frames' = SetTop(Advance([F EXCEPT !.stack = push(@, sources[src][name])]))
                /\ errors' = errors
           ELSE /\ frames' = SetTop(Advance([F EXCEPT !.stack = push(@, null_)]))
                /\ errors' = errors \cup {Error("Unbound name", name)}
    /\ executed' = Executed
    /\ UNCHANGED <<hosts, scenario, status, simp, runs, contexts, logs, pragmas, heap, calls>>

\* Neg, Pos, Add, Sub, Mul, MulAdd
MathsInstruction ==
    /\ Fetching
    /\ Instruction.op \in {"Neg", "Pos", "Add", "Sub", "Mul", "MulAdd"}
    /\ LET i == Instruction
           r1 == peek(F.stack)
           stack == CASE i.op = "Neg" -> poke(F.stack, neg(r1))
                      [] i.op = "Pos" -> IF HasObjects(r1) THEN poke(F.stack, null_)
                                         ELSE F.stack
                      [] i.op = "Add" ->
                            poke(drop(F.stack, 1), add(peek_at(F.stack, 1), r1))
                      [] i.op = "Sub" ->
                            poke(drop(F.stack, 1), sub(peek_at(F.stack, 1), r1))
                      [] i.op = "Mul" ->
                            poke(drop(F.stack, 1), mul(peek_at(F.stack, 1), r1))
                      [] i.op = "MulAdd" ->
                            poke(drop(F.stack, 2),
                                 mul_add(peek_at(F.stack, 2), peek_at(F.stack, 1), r1))
       IN  frames' = SetTop(Advance([F EXCEPT !.stack = stack]))
    /\ executed' = Executed
    /\ UNCHANGED <<hosts, scenario, status, simp, runs, contexts, errors, logs, pragmas, heap, calls>>

\* StoreGlobal
StoreGlobalInstruction ==
    /\ Fetching
    /\ Instruction.op = "StoreGlobal"
    /\ contexts' = [contexts EXCEPT ![F.ctx].variables =
                        DictSet(@, Instruction.value, peek(F.stack))]
    /\ frames' = SetTop(Advance([F EXCEPT !.stack = drop(@, 1)]))
    /\ executed' = Executed
    /\ UNCHANGED <<hosts, scenario, status, simp, runs, errors, logs, pragmas, heap, calls>>

\* a loop whose Next leaves when fewer items than names remain
LoopInstructionWholeGroups ==
    /\ Fetching
    /\ Instruction.op \in {"BeginFor", "Next", "EndForCompose", "PushNext", "EndFor"}
    /\ LET i == Instruction
           loop_source == F.loops[Len(F.loops)]
           exhausted == loop_source.position >= Len(loop_source.source)
       IN  frames' = SetTop(
             CASE i.op = "BeginFor" ->
                    Advance([F EXCEPT !.stack = drop(@, 1),
                                      !.loops = Append(@, [source |-> peek(F.stack),
                                                           position |-> 0,
                                                           iterations |-> 0])])
               [] i.op = "Next" ->
                    IF loop_source.position + i.value > Len(loop_source.source)
                    THEN [F EXCEPT !.pc = @ + 1 + i.offset]
                    ELSE LET n == i.value
                             top == Len(F.lvars)
                         IN  Advance([F EXCEPT
                                !.lvars = [j \in 1..top |->
                                    IF j > top - n
                                    THEN item(loop_source.source,
                                              loop_source.position + (j - (top - n)) - 1)
                                    ELSE F.lvars[j]],
                                !.loops[Len(F.loops)].position = @ + n,
                                !.loops[Len(F.loops)].iterations = @ + 1])
               [] i.op = "PushNext" ->
                    IF loop_source.position = Len(loop_source.source)
                    THEN [F EXCEPT !.pc = @ + 1 + i.offset]
                    ELSE Advance([F EXCEPT
                            !.stack = push(@, item(loop_source.source, loop_source.position)),
                            !.loops[Len(F.loops)].position = @ + 1,
                            !.loops[Len(F.loops)].iterations = @ + 1])
               [] i.op = "EndFor" ->
                    Advance([F EXCEPT !.loops = drop(@, 1)])
               [] i.op = "EndForCompose" ->
                    Advance([F EXCEPT
                        !.stack = push(drop(@, loop_source.iterations),
                                       pop_composed(@, loop_source.iterations)),
                        !.loops = drop(@, 1)]))
    /\ executed' = Executed
    /\ UNCHANGED <<hosts, scenario, status, simp, runs, contexts, errors, logs, pragmas, heap, calls>>

\* a loop whose BeginFor does not keep the loop around it
LoopInstructionOneLoop ==
    /\ Fetching
    /\ Instruction.op \in {"BeginFor", "Next", "EndForCompose", "PushNext", "EndFor"}
    /\ LET i == Instruction
           loop_source == F.loops[Len(F.loops)]
           exhausted == loop_source.position >= Len(loop_source.source)
       IN  frames' = SetTop(
             CASE i.op = "BeginFor" ->
                    Advance([F EXCEPT !.stack = drop(@, 1),
                                      !.loops = <<[source |-> peek(F.stack),
                                                     position |-> 0,
                                                     iterations |-> 0]>>])
               [] i.op = "Next" ->
                    IF exhausted THEN [F EXCEPT !.pc = @ + 1 + i.offset]
                    ELSE LET n == i.value
                             top == Len(F.lvars)
                         IN  Advance([F EXCEPT
                                !.lvars = [j \in 1..top |->
                                    IF j > top - n
                                    THEN item(loop_source.source,
                                              loop_source.position + (j - (top - n)) - 1)
                                    ELSE F.lvars[j]],
                                !.loops[Len(F.loops)].position = @ + n,
                                !.loops[Len(F.loops)].iterations = @ + 1])
               [] i.op = "PushNext" ->
                    IF loop_source.position = Len(loop_source.source)
                    THEN [F EXCEPT !.pc = @ + 1 + i.offset]
                    ELSE Advance([F EXCEPT
                            !.stack = push(@, item(loop_source.source, loop_source.position)),
                            !.loops[Len(F.loops)].position = @ + 1,
                            !.loops[Len(F.loops)].iterations = @ + 1])
               [] i.op = "EndFor" ->
                    Advance([F EXCEPT !.loops = drop(@, 1)])
               [] i.op = "EndForCompose" ->
                    Advance([F EXCEPT
                        !.stack = push(drop(@, loop_source.iterations),
                                       pop_composed(@, loop_source.iterations)),
                        !.loops = drop(@, 1)]))
    /\ executed' = Executed
    /\ UNCHANGED <<hosts, scenario, status, simp, runs, contexts, errors, logs, pragmas, heap, calls>>

\* BeginFor, Next, EndForCompose, PushNext, EndFor
LoopInstruction ==
    /\ Fetching
    /\ Instruction.op \in {"BeginFor", "Next", "EndForCompose", "PushNext", "EndFor"}
    /\ LET i == Instruction
           loop_source == F.loops[Len(F.loops)]
           exhausted == loop_source.position >= Len(loop_source.source)
       IN  frames' = SetTop(
             CASE i.op = "BeginFor" ->
                    Advance([F EXCEPT !.stack = drop(@, 1),
                                      !.loops = Append(@, [source |-> peek(F.stack),
                                                           position |-> 0,
                                                           iterations |-> 0])])
               [] i.op = "Next" ->
                    IF exhausted THEN [F EXCEPT !.pc = @ + 1 + i.offset]
                    ELSE LET n == i.value
                             top == Len(F.lvars)
                         IN  Advance([F EXCEPT
                                !.lvars = [j \in 1..top |->
                                    IF j > top - n
                                    THEN item(loop_source.source,
                                              loop_source.position + (j - (top - n)) - 1)
                                    ELSE F.lvars[j]],
                                !.loops[Len(F.loops)].position = @ + n,
                                !.loops[Len(F.loops)].iterations = @ + 1])
               [] i.op = "PushNext" ->
                    IF loop_source.position = Len(loop_source.source)
                    THEN [F EXCEPT !.pc = @ + 1 + i.offset]
                    ELSE Advance([F EXCEPT
                            !.stack = push(@, item(loop_source.source, loop_source.position)),
                            !.loops[Len(F.loops)].position = @ + 1,
                            !.loops[Len(F.loops)].iterations = @ + 1])
               [] i.op = "EndFor" ->
                    Advance([F EXCEPT !.loops = drop(@, 1)])
               [] i.op = "EndForCompose" ->
                    Advance([F EXCEPT
                        !.stack = push(drop(@, loop_source.iterations),
                                       pop_composed(@, loop_source.iterations)),
                        !.loops = drop(@, 1)]))
    /\ executed' = Executed
    /\ UNCHANGED <<hosts, scenario, status, simp, runs, contexts, errors, logs, pragmas, heap, calls>>

\* SetNodeScope, ClearNodeScope, Attribute, Append, Prepend, AppendRoot
NodeInstruction ==
    /\ Fetching
    /\ Instruction.op \in {"SetNodeScope", "ClearNodeScope", "Attribute", "Append", "Prepend",
                           "AppendRoot"}
    /\ LET i == Instruction
           r1 == peek(F.stack)
       IN  CASE i.op = "SetNodeScope" ->
                  /\ frames' = SetTop(Advance(
                        IF Len(r1) = 1 /\ r1[1].k = "node"
                        THEN [F EXCEPT !.node_scope = r1[1].id] ELSE F))
                  /\ heap' = IF Len(r1) = 1 /\ r1[1].k = "node" THEN Unshare(heap, r1[1].id)
                             ELSE heap
             [] i.op = "ClearNodeScope" ->
                  /\ frames' = SetTop(Advance([F EXCEPT !.node_scope = 0]))
                  /\ heap' = heap
             [] i.op = "Attribute" ->
                  /\ frames' = SetTop(Advance([F EXCEPT !.stack = drop(@, 1)]))
                  /\ heap' = SetAttributes(heap, peek_at(F.stack, 1), 1, i.value, r1)
             [] i.op = "Append" ->
                  /\ frames' = SetTop(Advance([F EXCEPT !.stack = drop(@, i.value)]))
                  /\ heap' = IF HasObjects(peek_at(F.stack, i.value))
                             THEN AppendVectors(heap, peek_at(F.stack, i.value), F.stack,
                                                i.value - 1, 1)
                             ELSE heap
             [] i.op = "Prepend" ->
                  /\ frames' = SetTop(Advance([F EXCEPT !.stack = drop(@, 1)]))
                  /\ heap' = IF HasObjects(peek_at(F.stack, 1)) /\ HasObjects(r1)
                             THEN PrependVector(heap, peek_at(F.stack, 1), r1, 1)
                             ELSE heap
             [] i.op = "AppendRoot" ->
                  /\ frames' = SetTop(Advance([F EXCEPT !.stack = drop(@, 1)]))
                  /\ heap' = AppendRootNodes(heap, r1, 1)
    /\ executed' = Executed
    /\ UNCHANGED <<hosts, scenario, status, simp, runs, contexts, errors, logs, pragmas, calls>>

----------------------------------------------------------------------------
(* Calls *)

\* a Function value, as the Func instruction builds it
FunctionValue(name, parameters, defaults, program, lvars, root_path) ==
    [k |-> "func", name |-> name, parameters |-> parameters, defaults |-> defaults,
     program |-> program, lvars |-> lvars, root_path |-> root_path]

\* Func
FuncInstruction ==
    /\ Fetching
    /\ Instruction.op = "Func"
    /\ LET i == Instruction
           n == Len(i.tvalue)
           program == peek(F.stack)[1]
           rest == drop(F.stack, 1)
           function == FunctionValue(i.svalue, i.tvalue, pop_tuple(rest, n), program.code,
                                     F.lvars, contexts[F.ctx].path)
       IN  frames' = SetTop(Advance([F EXCEPT !.stack = push(drop(rest, n), <<function>>)]))
    /\ executed' = Executed
    /\ UNCHANGED <<hosts, scenario, status, simp, runs, contexts, errors, logs, pragmas, heap, calls>>

\* the record of one invocation of a host callable
Invocation(function, args, kwargs) == [function |-> function, args |-> args, kwargs |-> kwargs]

\* what the element of a callable vector is called, for the error message
ReprOf(e) ==
    CASE e.k \in {"host", "func"} -> e.name
      [] e.k = "str" -> e.str
      [] OTHER -> e.k

\* an except clause that forgets the error
RaisedSilently(stack, errs, what) == [stack |-> push(stack, null_), errors |-> errs]

\* the except clause around a call of a host function: the error is recorded
\* and null stands for the result
Raised(stack, errs, what) ==
    [stack |-> push(stack, null_), errors |-> errs \cup {Error("Error calling", what)}]

\* a call of a host function that returns its result
Returned(stack, errs, value) == [stack |-> push(stack, value), errors |-> errs]

\* CallFast: the host function of the instruction, called directly; the
\* message of the error names the local variable function, which is None here
CallFastInstruction ==
    /\ Fetching
    /\ Instruction.op = "CallFast"
    /\ LET i == Instruction
           args == pop_tuple(F.stack, i.value)
           r == HostCall(i.obj.name, args, EmptyDict)
           after == IF r.raised THEN Raised(drop(F.stack, i.value), errors, "None")
                    ELSE Returned(drop(F.stack, i.value), errors, r.value)
       IN  /\ frames' = SetTop(Advance([F EXCEPT !.stack = after.stack]))
           /\ errors' = after.errors
           /\ calls' = Append(calls, Invocation(i.obj.name, args, EmptyDict))
    /\ executed' = Executed
    /\ UNCHANGED <<hosts, scenario, status, simp, runs, contexts, logs, pragmas, heap>>

\* Call: the callable, the keyword arguments and the arguments are popped
CallInstruction ==
    /\ Fetching
    /\ Instruction.op = "Call"
    /\ LET i == Instruction
           r1 == peek(F.stack)
           s1 == drop(F.stack, 1)
           kwargs == IF i.tvalue # <<>> THEN pop_dict(s1, i.tvalue) ELSE EmptyDict
           s2 == drop(s1, Len(i.tvalue))
           args == pop_tuple(s2, i.ivalue)
           s3 == drop(s2, i.ivalue)
       IN  frames' = SetTop(
              IF HasObjects(r1)
              THEN [F EXCEPT !.stack = s3,
                             !.pending = [kind |-> "call", callables |-> r1, i |-> 0,
                                          args |-> args, kwargs |-> kwargs,
                                          haskw |-> i.tvalue # <<>>,
                                          base |-> Len(s3), results |-> <<>>]]
              ELSE Advance([F EXCEPT !.stack = push(s3, null_)]))
    /\ executed' = Executed
    /\ UNCHANGED <<hosts, scenario, status, simp, runs, contexts, errors, logs, pragmas, heap, calls>>

\* the elements of the callable vector taken from the last to the first
CalleeFromEnd == F.pending.callables[Len(F.pending.callables) - F.pending.i]

\* the element of the callable vector that call_helper is given next
Callee == F.pending.callables[F.pending.i + 1]

InCall == status = "running" /\ F.pending.kind = "call"

\* the locals that call_helper pushes for the parameters of a Function
\* the parameters with a keyword argument taken before a positional one
ParameterValuesKeywordFirst(func, args, kwargs) ==
    [i \in 1..Len(func.parameters) |->
        IF func.parameters[i] \in DOMAIN kwargs THEN kwargs[func.parameters[i]]
        ELSE IF i <= Len(args) THEN args[i]
        ELSE func.defaults[i]]

ParameterValues(func, args, kwargs) ==
    [i \in 1..Len(func.parameters) |->
        IF i <= Len(args) THEN args[i]
        ELSE IF func.parameters[i] \in DOMAIN kwargs THEN kwargs[func.parameters[i]]
        ELSE func.defaults[i]]

\* function is _debug_func and n == 1 and kwargs is None
IsDebugCall(e, args, haskw) == e.k = "host" /\ e.name = "debug" /\ Len(args) = 1 /\ ~haskw

\* call_helper on an element that is no Function: the debug function, a host
\* function (with the context when it asks for it), or anything else
CallHost ==
    /\ InCall
    /\ F.pending.i < Len(F.pending.callables)
    /\ Callee.k # "func"
    /\ LET e == Callee
           args == F.pending.args
           kwargs == F.pending.kwargs
           r == IF IsCallable(e) THEN HostCall(e.name, args, kwargs)
                ELSE [raised |-> TRUE, value |-> null_]
           after == IF IsDebugCall(e, args, F.pending.haskw)
                    THEN Returned(F.stack, errors, args[1])
                    ELSE IF r.raised THEN Raised(F.stack, errors, ReprOf(e))
                    ELSE Returned(F.stack, errors, r.value)
       IN  /\ frames' = SetTop([F EXCEPT !.stack = after.stack,
                                         !.pending.i = @ + 1,
                                         !.pending.results = Append(@, peek(after.stack))])
           /\ errors' = after.errors
           /\ logs' = IF IsDebugCall(e, args, F.pending.haskw) THEN logs \cup {args[1]}
                      ELSE logs
           /\ calls' = Append(calls, Invocation(ReprOf(e), args, kwargs))
    /\ UNCHANGED <<hosts, scenario, status, simp, runs, contexts, pragmas, heap, executed>>

\* call_helper on a Function: the parameters become locals on the function's own
\* locals stack and the body runs on the caller's value stack
CallFunction ==
    /\ InCall
    /\ F.pending.i < Len(F.pending.callables)
    /\ Callee.k = "func"
    /\ LET func == Callee
           before == CurrentLvars(frames, func, func.lvars)
           lvars == before \o ParameterValues(func, F.pending.args, F.pending.kwargs)
           ret == [top |-> Len(F.stack), lvars_top |-> Len(lvars),
                   m |-> Len(func.parameters), saved_path |-> contexts[F.ctx].path,
                   before |-> before]
       IN  /\ frames' = Append(frames, Frame("call", func.program, F.stack, lvars, F.ctx, ret,
                                             [stack |-> F.own.stack, lvars |-> func]))
           /\ contexts' = [contexts EXCEPT ![F.ctx].path = func.root_path]
           /\ calls' = Append(calls, Invocation(func.name, F.pending.args, F.pending.kwargs))
    /\ UNCHANGED <<hosts, scenario, status, simp, runs, errors, logs, pragmas, heap, executed>>

\* asserts that look at the value stack only
ReturnAssertsStackOnly(f) == Len(f.stack) = f.ret.top + 1

\* the two asserts of call_helper after the body of the Function
ReturnAsserts(f) == Len(f.stack) = f.ret.top + 1 /\ Len(f.lvars) = f.ret.lvars_top

\* the body of the Function has run: the asserts of call_helper, then the
\* parameters are dropped and the path is restored
FunctionReturn ==
    /\ status = "running"
    /\ F.kind = "call"
    /\ F.pending = NoPending
    /\ ~(F.pc >= 0 /\ F.pc < Len(F.code))
    /\ LET caller == frames[Len(frames) - 1]
           ok == F.pc = Len(F.code) /\ ReturnAsserts(F)
       IN  IF ok
           THEN /\ frames' = StacksLeft(
                                [i \in 1..(Len(frames) - 1) |->
                                    IF i = Len(frames) - 1
                                    THEN [caller EXCEPT !.pending.i = @ + 1,
                                                        !.pending.results =
                                                            Append(@, peek(F.stack))]
                                    ELSE frames[i]],
                                F.own, F.stack, drop(F.lvars, F.ret.m))
                /\ contexts' = [contexts EXCEPT ![F.ctx].path = F.ret.saved_path]
                /\ UNCHANGED <<status, runs>>
           ELSE /\ status' = "AssertionError"
                /\ runs' = Append(runs, Result(status'))
                /\ UNCHANGED <<frames, contexts>>
    /\ UNCHANGED <<hosts, scenario, simp, errors, logs, pragmas, heap, calls, executed>>

\* every element has been given to call_helper: several results are composed
CallEnd ==
    /\ InCall
    /\ F.pending.i = Len(F.pending.callables)
    /\ LET n == Len(F.pending.callables)
           stack == IF n > 1 THEN push(drop(F.stack, n), pop_composed(F.stack, n))
                    ELSE F.stack
       IN  frames' = SetTop(Advance([F EXCEPT !.stack = stack, !.pending = NoPending]))
    /\ UNCHANGED <<hosts, scenario, status, simp, runs, contexts, errors, logs, pragmas, heap, calls,
                   executed>>

----------------------------------------------------------------------------
(* Imports *)

\* SharedCache.get_with_root(filename, path).read_flitter_program(): the program
\* of the module, or none
HasProgram(filename) == filename \in DOMAIN scenario.modules

LoadProgram(filename) == [code |-> compile(scenario.modules[filename]), path |-> filename]

\* a walk that stops at the importing context, without its parents
IsCircularOwnPath(ctx, path) == contexts[ctx].path = path

\* the walk of import_module along the parent chain, from the importing context
IsCircular(ctx, path) == \E c \in 1..ctx : contexts[c].path = path

\* an import that binds every name to null as soon as the module lacks one
ImportedValuesAllOrNone(names, import_variables, i) ==
    IF \A j \in 1..Len(names) : names[j] \in DOMAIN import_variables
    THEN [j \in 1..Len(names) |-> import_variables[names[j]]]
    ELSE [j \in 1..Len(names) |-> null_]

\* an import context that starts with the variables of the importing context
ImportContextInherited(context, path) == [variables |-> context.variables, path |-> path]

\* the Context that import_module makes for the module: its parent is the
\* importing context, its variables are empty
ImportContext(context, path) == [variables |-> EmptyDict, path |-> path]

\* the locals that the Import instruction pushes for the requested names
RECURSIVE ImportedValues(_, _, _)
ImportedValues(names, import_variables, i) ==
    IF i > Len(names) THEN <<>>
    ELSE <<IF names[i] \in DOMAIN import_variables THEN import_variables[names[i]] ELSE null_>>
         \o ImportedValues(names, import_variables, i + 1)

\* the errors that the Import instruction records for the names the module lacks
ImportErrors(names, import_variables, filename) ==
    {Error("Unable to import name", names[i]) :
        i \in {j \in 1..Len(names) : names[j] \notin DOMAIN import_variables}}

\* Import: import_module finds no program or a circular import and the names
\* are bound to null, or the module starts on its program's own stacks
ImportInstruction ==
    /\ Fetching
    /\ Instruction.op = "Import"
    /\ LET names == Instruction.value
           filename == as_string(peek(F.stack))
           popped == [F EXCEPT !.stack = drop(@, 1)]
       IN  IF HasProgram(filename) /\ ~IsCircular(F.ctx, LoadProgram(filename).path)
           THEN /\ frames' = LET waiting == SetTop([popped EXCEPT !.pending =
                                                [kind |-> "import", names |-> names,
                                                 filename |-> filename]])
                                  own == OwnStacks(LoadProgram(filename).path)
                              IN  Append(waiting,
                                         Frame("import", LoadProgram(filename).code,
                                               CurrentStack(waiting, own.stack, <<>>),
                                               CurrentLvars(waiting, own.lvars, <<>>),
                                               Len(contexts) + 1, NoRet, own))
                /\ contexts' = Append(contexts, ImportContext(contexts[F.ctx],
                                                               LoadProgram(filename).path))
                /\ errors' = errors
           ELSE /\ frames' = SetTop(Advance(
                        [popped EXCEPT !.lvars = @ \o [i \in 1..Len(names) |-> null_]]))
                /\ contexts' = contexts
                /\ errors' = errors
                        \cup (IF HasProgram(filename)
                              THEN {Error("Circular import", filename)} ELSE {})
                        \cup {Error("Unable to import from", filename)}
    /\ executed' = Executed
    /\ UNCHANGED <<hosts, scenario, status, simp, runs, logs, pragmas, heap, calls>>

\* the module has run: the asserts of import_module, then the requested names
\* are looked up in the module's variables and pushed as locals of the importer
ImportReturn ==
    /\ status = "running"
    /\ F.kind = "import"
    /\ F.pending = NoPending
    /\ ~(F.pc >= 0 /\ F.pc < Len(F.code))
    /\ LET caller == frames[Len(frames) - 1]
           import_variables == contexts[F.ctx].variables
           names == caller.pending.names
           ok == F.pc = Len(F.code) /\ F.stack = <<>> /\ F.lvars = <<>>
       IN  IF ok
           THEN /\ frames' = LET left == StacksLeft(SubSeq(frames, 1, Len(frames) - 1),
                                                     F.own, F.stack, F.lvars)
                                  importer == left[Len(left)]
                              IN  [left EXCEPT ![Len(left)] = Advance([importer EXCEPT
                                        !.lvars = @ \o ImportedValues(names, import_variables, 1),
                                        !.pending = NoPending])]
                /\ contexts' = SubSeq(contexts, 1, Len(contexts) - 1)
                /\ errors' = errors
                        \cup ImportErrors(names, import_variables, caller.pending.filename)
                /\ UNCHANGED <<status, runs>>
           ELSE /\ status' = "AssertionError"
                /\ runs' = Append(runs, Result(status'))
                /\ UNCHANGED <<frames, contexts, errors>>
    /\ UNCHANGED <<hosts, scenario, simp, logs, pragmas, heap, calls, executed>>

----------------------------------------------------------------------------
(* The partial evaluator: Expression._simplify, by type of expression.      *)
(* context.variables is a dict, which keeps the order in which its names    *)
(* were first set: a sequence of entries.  The value of a name is None, a   *)
(* Vector, a Name it stands for, or a Function that can be inlined.         *)

VNone == [t |-> "none"]
VVec(v) == [t |-> "vec", v |-> v]
VName(e) == [t |-> "name", e |-> e]
VFunc(e) == [t |-> "func", e |-> e]

VNames(variables) == {variables[i].name : i \in 1..Len(variables)}
VIndex(variables, name) == CHOOSE i \in 1..Len(variables) : variables[i].name = name
VGet(variables, name) == variables[VIndex(variables, name)].value

\* variables[name] = value: a name already set keeps its place
VSet(variables, name, value) ==
    IF name \in VNames(variables)
    THEN [variables EXCEPT ![VIndex(variables, name)].value = value]
    ELSE Append(variables, [name |-> name, value |-> value])

RECURSIVE VSetAll(_, _, _, _)
VSetAll(variables, names, i, value) ==
    IF i > Len(names) THEN variables
    ELSE VSetAll(VSet(variables, names[i], value), names, i + 1, value)

\* the names of a multiple binding take the items of the value
RECURSIVE VSetItems(_, _, _, _)
VSetItems(variables, names, i, value) ==
    IF i > Len(names) THEN variables
    ELSE VSetItems(VSet(variables, names[i], VVec(item(value, i - 1))), names, i + 1, value)

NoUnbound == [on |-> FALSE, names |-> {}]

\* the Context of a simplification; heap holds the Node objects, those of the
\* tree included
SimplifyContext(variables) ==
    [variables |-> variables, errors |-> {}, unbound |-> NoUnbound, heap |-> heap,
     depth |-> 0, overflow |-> FALSE]

\* Literal(value), with the Node objects of the value themselves
SharedLiteral(value, c) == [expr |-> Literal(value), ctx |-> c]

\* Literal(value.copynodes()), for a value that holds Node objects
CopiedLiteral(value, c) ==
    IF \E i \in 1..Len(value) : value[i].k = "node"
    THEN LET copy == copynodes(c.heap, value)
         IN  [expr |-> Literal(copy.value), ctx |-> [c EXCEPT !.heap = copy.heap]]
    ELSE [expr |-> Literal(value), ctx |-> c]

R(e, c) == [expr |-> e, ctx |-> c]

\* the literals at the head of the list, for sequence_pack
RECURSIVE LiteralRun(_, _)
LiteralRun(exprs, i) ==
    IF i <= Len(exprs) /\ IsLiteral(exprs[i]) THEN LiteralRun(exprs, i + 1) ELSE i - 1

RECURSIVE Pack(_, _, _)
Pack(expressions, remaining, has_let) ==
    IF expressions = <<>>
    THEN IF Len(remaining) = 0 THEN NoOp
         ELSE IF has_let
         THEN IF \E i \in 1..Len(remaining) : ~IsLet(remaining[i])
              THEN Sequence(remaining) ELSE NoOp
         ELSE IF Len(remaining) = 1 THEN remaining[1]
         ELSE InlineSequence(remaining)
    ELSE LET expr == Head(expressions)
         IN  IF IsLiteral(expr)
             THEN LET k == LiteralRun(expressions, 1)
                      vectors == [i \in 1..k |-> expressions[i].value]
                  IN  Pack(SubSeq(expressions, k + 1, Len(expressions)),
                           IF compose(vectors) # <<>>
                           THEN Append(remaining, Literal(compose(vectors)))
                           ELSE remaining,
                           has_let)
             ELSE IF expr.type = "InlineSequence"
             THEN Pack(expr.expressions \o Tail(expressions), remaining, has_let)
             ELSE Pack(Tail(expressions), Append(remaining, expr),
                       has_let \/ IsLet(expr) \/ expr.type \in {"Import", "Function"})

sequence_pack(expressions) == Pack(expressions, <<>>, FALSE)

\* the entries that Top._simplify turns into bindings of its StoreGlobal
IsGlobalBinding(entry, before) == entry.name \notin before /\ entry.value.t = "vec"

RECURSIVE GlobalBindings(_, _, _)
GlobalBindings(variables, before, i) ==
    IF i > Len(variables) THEN <<>>
    ELSE (IF IsGlobalBinding(variables[i], before)
          THEN <<PolyBinding(<<variables[i].name>>, Literal(variables[i].value.v))>>
          ELSE <<>>) \o GlobalBindings(variables, before, i + 1)

\* Add.constant_left, Subtract.constant_left, Multiply.constant_left: an
\* expression, or None
constant_left(type, left, right) ==
    CASE type = "Add" ->
            IF as_bool(eq(left, false_)) THEN Unary("Positive", right)
            ELSE IF right.type = "Negative" THEN Binary("Subtract", Literal(left), right.expr)
            ELSE NoneExpr
      [] type = "Subtract" ->
            IF as_bool(eq(left, false_)) THEN Unary("Negative", right) ELSE NoneExpr
      [] type = "Multiply" ->
            IF as_bool(eq(left, true_)) THEN Unary("Positive", right)
            ELSE IF as_bool(eq(left, minusone_)) THEN Unary("Negative", right)
            ELSE IF right.type \in {"Add", "Subtract"}
            THEN IF IsLiteral(right.left) \/ IsLiteral(right.right)
                 THEN Binary(right.type, Binary("Multiply", Literal(left), right.left),
                             Binary("Multiply", Literal(left), right.right))
                 ELSE NoneExpr
            ELSE IF right.type = "Multiply"
            THEN IF IsLiteral(right.left)
                 THEN Binary("Multiply", Binary("Multiply", Literal(left), right.left),
                             right.right)
                 ELSE IF IsLiteral(right.right)
                 THEN Binary("Multiply", right.left,
                             Binary("Multiply", Literal(left), right.right))
                 ELSE NoneExpr
            ELSE IF right.type = "Negative"
            THEN Binary("Multiply", Literal(neg(left)), right.expr)
            ELSE NoneExpr
      [] OTHER -> NoneExpr

\* Add.constant_right, Subtract.constant_right, Multiply.constant_right
constant_right(type, left, right) ==
    CASE type = "Add" -> constant_left("Add", right, left)
      [] type = "Multiply" -> constant_left("Multiply", right, left)
      [] type = "Subtract" ->
            IF as_bool(eq(right, false_)) THEN Unary("Positive", left)
            ELSE Binary("Add", left, Literal(neg(right)))
      [] OTHER -> NoneExpr

\* BinaryOperation.op
op(type, left, right) ==
    CASE type = "Add" -> add(left, right)
      [] type = "Subtract" -> sub(left, right)
      [] type = "Multiply" -> mul(left, right)

\* the folding of a call of literal host callables in Call._simplify: the
\* results in order, or none when a callable raises
RECURSIVE FoldCalls(_, _, _, _, _)
FoldCalls(objects, i, args, kwargs, results) ==
    IF i > Len(objects) THEN [ok |-> TRUE, results |-> results]
    ELSE IF ~IsCallable(objects[i]) THEN FoldCalls(objects, i + 1, args, kwargs, results)
    ELSE LET r == HostCall(objects[i].name, args, kwargs)
         IN  IF r.raised THEN [ok |-> FALSE, results |-> results]
             ELSE FoldCalls(objects, i + 1, args, kwargs, Append(results, Literal(r.value)))


\* bindings.reverse()
reversed(s) == [i \in 1..Len(s) |-> s[Len(s) + 1 - i]]

\* the loops of Append._simplify and Prepend._simplify: every node j.. of
\* nodes gets a copy of every child; Prepend inserts them last child first
RECURSIVE AttachCopies(_, _, _, _, _, _)
AttachCopies(h, nodes, childs, j, t, first) ==
    IF j > Len(nodes) THEN h
    ELSE IF t > Len(childs) THEN AttachCopies(h, nodes, childs, j + 1, 1, first)
    ELSE LET child == IF first THEN childs[Len(childs) + 1 - t] ELSE childs[t]
         IN  AttachCopies(AttachOrCopy(h, nodes[j].id, child.id, TRUE, first),
                          nodes, childs, j, t + 1, first)

\* the first loop over the bindings of Attributes._simplify: the literal
\* bindings at the end of the list are popped and set on every node
RECURSIVE SetLiteralBindings(_, _, _)
SetLiteralBindings(h, nodes, bindings) ==
    IF bindings # <<>> /\ IsLiteral(bindings[Len(bindings)].expr)
    THEN LET binding == bindings[Len(bindings)]
         IN  SetLiteralBindings(SetItems(h, nodes, 1, binding.name, binding.expr.value),
                                nodes, SubSeq(bindings, 1, Len(bindings) - 1))
    ELSE [heap |-> h, bindings |-> bindings]

\* the attributes of the node that are not names of the context become
\* variables
RECURSIVE AttributeVariables(_, _, _)
AttributeVariables(variables, attrs, names) ==
    IF names = {} THEN variables
    ELSE LET attr == CHOOSE n \in names : TRUE
         IN  AttributeVariables(IF attr \in VNames(variables) THEN variables
                                ELSE VSet(variables, attr, VVec(attrs[attr])),
                                attrs, names \ {attr})

RECURSIVE Simplify(_, _), SimplifyByType(_, _), SimplifyList(_, _, _, _), SimplifyBindings(_, _, _, _),
          SimplifyTests(_, _, _, _), SimplifyParameters(_, _, _, _, _),
          SimplifyKeywords(_, _, _, _), Unroll(_, _, _, _, _),
          CollectBindings(_, _, _), SimplifyReversed(_, _, _, _), Resimplify(_, _, _)

\* for binding in reversed(attrs.bindings)
SimplifyReversed(bindings, i, c, out) ==
    IF i < 1 THEN [out |-> out, ctx |-> c]
    ELSE LET r == Simplify(bindings[i].expr, c)
         IN  SimplifyReversed(bindings, i - 1, r.ctx, Append(out, Binding(bindings[i].name, r.expr)))

\* the while loop at the head of Attributes._simplify, down the nested
\* Attributes
CollectBindings(node, c, out) ==
    IF node.type \in {"Attributes", "FastAttributes"}
    THEN LET r == SimplifyReversed(node.bindings, Len(node.bindings), c, out)
         IN  CollectBindings(node.node, r.ctx, r.out)
    ELSE [node |-> node, bindings |-> out, ctx |-> c]

\* the second loop over the bindings of Attributes._simplify, with the
\* attributes of the node n as variables
Resimplify(bindings, n, c) ==
    IF bindings = <<>> THEN [bindings |-> bindings, ctx |-> c]
    ELSE LET binding == bindings[Len(bindings)]
             front == SubSeq(bindings, 1, Len(bindings) - 1)
             r == Simplify(binding.expr, c)
         IN  IF IsLiteral(r.expr)
             THEN Resimplify(front, n,
                      [r.ctx EXCEPT !.heap = SetItems(@, <<n>>, 1, binding.name, r.expr.value),
                                    !.variables = IF binding.name \in VNames(@) THEN @
                                                  ELSE VSet(@, binding.name, VVec(r.expr.value))])
             ELSE [bindings |-> Append(front, Binding(binding.name, r.expr)), ctx |-> r.ctx]

\* a tuple of expressions, one after the other in the same context
SimplifyList(exprs, i, c, out) ==
    IF i > Len(exprs) THEN [out |-> out, ctx |-> c]
    ELSE LET r == Simplify(exprs[i], c)
         IN  SimplifyList(exprs, i + 1, r.ctx, Append(out, r.expr))

\* the bindings of Let._simplify and InlineLet._simplify
SimplifyBindings(bindings, i, c, remaining) ==
    IF i > Len(bindings) THEN [out |-> remaining, ctx |-> c]
    ELSE LET binding == bindings[i]
             r == Simplify(binding.expr, c)
             expr == r.expr
             variables == r.ctx.variables
         IN  IF IsLiteral(expr)
             THEN SimplifyBindings(bindings, i + 1,
                    [r.ctx EXCEPT !.variables =
                        IF Len(binding.names) = 1
                        THEN VSet(variables, binding.names[1], VVec(expr.value))
                        ELSE VSetItems(variables, binding.names, 1, expr.value)],
                    remaining)
             ELSE IF IsName(expr) /\ Len(binding.names) = 1
             THEN SimplifyBindings(bindings, i + 1,
                    [r.ctx EXCEPT !.variables =
                        IF expr.name # binding.names[1]
                        THEN VSet(variables, binding.names[1], VName(expr))
                        ELSE variables],
                    remaining)
             ELSE SimplifyBindings(bindings, i + 1,
                    [r.ctx EXCEPT !.variables = VSetAll(variables, binding.names, 1, VNone)],
                    Append(remaining, PolyBinding(binding.names, expr)))

\* the tests of IfElse._simplify
SimplifyTests(expr, i, c, remaining) ==
    IF i > Len(expr.tests)
    THEN LET r == IF expr.else_ # NoneExpr THEN Simplify(expr.else_, c) ELSE R(NoneExpr, c)
         IN  IF remaining # <<>> THEN R(IfElse(remaining, r.expr), r.ctx)
             ELSE IF r.expr = NoneExpr THEN R(NoOp, r.ctx)
             ELSE r
    ELSE LET rc == Simplify(expr.tests[i].condition, c)
         IN  IF IsLiteral(rc.expr)
             THEN IF as_bool(rc.expr.value)
                  THEN LET rt == Simplify(expr.tests[i].then, rc.ctx)
                       IN  IF remaining = <<>> THEN rt
                           ELSE R(IfElse(remaining, rt.expr), rt.ctx)
                  ELSE SimplifyTests(expr, i + 1, rc.ctx, remaining)
             ELSE LET rt == Simplify(expr.tests[i].then, rc.ctx)
                  IN  SimplifyTests(expr, i + 1, rt.ctx,
                                    Append(remaining, IfCondition(rc.expr, rt.expr)))

\* the parameters of Function._simplify, with their default values
SimplifyParameters(parameters, i, c, out, lit) ==
    IF i > Len(parameters) THEN [out |-> out, ctx |-> c, literal |-> lit]
    ELSE IF parameters[i].expr = NoneExpr
    THEN SimplifyParameters(parameters, i + 1, c,
                            Append(out, Binding(parameters[i].name, NoneExpr)), lit)
    ELSE LET r == Simplify(parameters[i].expr, c)
         IN  SimplifyParameters(parameters, i + 1, r.ctx,
                                Append(out, Binding(parameters[i].name, r.expr)),
                                lit /\ IsLiteral(r.expr))

\* the keyword arguments of Call._simplify
SimplifyKeywords(keyword_args, i, c, out) ==
    IF i > Len(keyword_args) THEN [out |-> out, ctx |-> c]
    ELSE LET r == Simplify(keyword_args[i].expr, c)
         IN  SimplifyKeywords(keyword_args, i + 1, r.ctx,
                              Append(out, Binding(keyword_args[i].name, r.expr)))

\* an unrolling that keeps the copy of the body for the first items only
UnrollFirst(expr, values, i, c, remaining) ==
    IF i >= Len(values) THEN [out |-> remaining, ctx |-> c]
    ELSE LET bound == [c EXCEPT !.variables = VSetItems(@, expr.names, 1, values)]
             r == Simplify(expr.body, bound)
         IN  [out |-> <<r.expr>>, ctx |-> r.ctx]

\* the loop of For._simplify over the items of a literal source
Unroll(expr, values, i, c, remaining) ==
    IF i >= Len(values) THEN [out |-> remaining, ctx |-> c]
    ELSE LET n == Len(expr.names)
             bound == [c EXCEPT !.variables =
                         VSetItems(@, expr.names, 1, SubSeq(values, i + 1, Len(values)))]
             r == Simplify(expr.body, bound)
         IN  Unroll(expr, values, i + n, r.ctx, Append(remaining, r.expr))

\* the bindings of the InlineLet that Call._simplify makes of a known function
InlineBindings(func_expr, args, keyword_args) ==
    [i \in 1..Len(func_expr.parameters) |->
        LET binding == func_expr.parameters[i]
            named == {j \in 1..Len(keyword_args) : keyword_args[j].name = binding.name}
        IN  IF i <= Len(args) THEN PolyBinding(<<binding.name>>, args[i])
            ELSE IF named # {}
            THEN PolyBinding(<<binding.name>>,
                             keyword_args[CHOOSE j \in named : \A l \in named : l <= j].expr)
            ELSE IF binding.expr # NoneExpr THEN PolyBinding(<<binding.name>>, binding.expr)
            ELSE PolyBinding(<<binding.name>>, Literal(null_))]

\* a call of expr._simplify(context): one more frame on the stack while it
\* lasts, and no call when the stack is full
Simplify(expr, c) ==
    IF c.depth >= StackDepth THEN [expr |-> expr, ctx |-> [c EXCEPT !.overflow = TRUE]]
    ELSE CHOOSE returned \in
             {[expr |-> r.expr, ctx |-> [r.ctx EXCEPT !.depth = @ - 1]] :
                 r \in {SimplifyByType(expr, [c EXCEPT !.depth = @ + 1])}} : TRUE

\* Expression._simplify, by type of expression
SimplifyByType(expr, c) ==
    CASE expr.type = "Top" ->
            LET before == VNames(c.variables)
                r == SimplifyList(expr.expressions, 1, c, <<>>)
                kept(e) == ~IsLiteral(e) \/ Len(e.value) > 0
                bindings == GlobalBindings(r.ctx.variables, before, 1)
            IN  R(Top(SelectSeq(r.out, kept)
                      \o (IF bindings # <<>> THEN <<StoreGlobal(bindings)>> ELSE <<>>)),
                  r.ctx)
      [] expr.type = "Pragma" ->
            LET r == Simplify(expr.expr, c) IN R(Pragma(expr.name, r.expr), r.ctx)
      [] expr.type = "Import" ->
            LET r == Simplify(expr.filename,
                              [c EXCEPT !.variables = VSetAll(@, expr.names, 1, VNone)])
            IN  R(Import(expr.names, r.expr), r.ctx)
      [] expr.type = "Sequence" ->
            LET r == SimplifyList(expr.expressions, 1, c, <<>>)
            IN  R(sequence_pack(r.out), [r.ctx EXCEPT !.variables = c.variables])
      [] expr.type = "InlineSequence" ->
            LET r == SimplifyList(expr.expressions, 1, c, <<>>)
            IN  R(sequence_pack(r.out), r.ctx)
      [] expr.type = "Literal" -> CopiedLiteral(expr.value, c)
      [] expr.type \in {"Name", "FunctionName"} ->
            IF expr.name \in VNames(c.variables)
            THEN LET value == VGet(c.variables, expr.name)
                 IN  CASE value.t = "none" -> R(expr, c)
                       [] value.t = "func" -> R(FunctionName(expr.name), c)
                       [] value.t = "name" -> Simplify(value.e, c)
                       [] value.t = "vec" -> CopiedLiteral(value.v, c)
            ELSE IF expr.name \in DOMAIN static_builtins(scenario)
            THEN R(Literal(static_builtins(scenario)[expr.name]), c)
            ELSE IF expr.name \notin DOMAIN dynamic_builtins(scenario)
            THEN IF c.unbound.on
                 THEN R(expr, [c EXCEPT !.unbound.names = @ \cup {expr.name}])
                 ELSE R(NoOp, [c EXCEPT !.errors = @ \cup {Error("Unbound name", expr.name)}])
            ELSE R(expr, c)
      [] expr.type = "Negative" ->
            LET r == Simplify(expr.expr, c)
            IN  IF IsLiteral(r.expr) THEN R(Literal(neg(r.expr.value)), r.ctx)
                ELSE IF r.expr.type = "Negative"
                THEN Simplify(Unary("Positive", r.expr.expr), r.ctx)
                ELSE IF r.expr.type = "Multiply" /\ IsLiteral(r.expr.left)
                THEN Simplify(Binary("Multiply", Unary("Negative", r.expr.left),
                                     r.expr.right), r.ctx)
                ELSE IF r.expr.type = "Multiply" /\ IsLiteral(r.expr.right)
                THEN Simplify(Binary("Multiply", r.expr.left,
                                     Unary("Negative", r.expr.right)), r.ctx)
                ELSE R(Unary("Negative", r.expr), r.ctx)
      [] expr.type = "Positive" ->
            LET r == Simplify(expr.expr, c)
            IN  IF IsLiteral(r.expr) THEN R(Literal(pos(r.expr.value)), r.ctx)
                ELSE IF r.expr.type \in {"Negative", "Positive"} \/ IsMaths(r.expr)
                THEN Simplify(r.expr, r.ctx)
                ELSE R(Unary("Positive", r.expr), r.ctx)
      [] expr.type \in {"Add", "Subtract", "Multiply"} ->
            LET l == Simplify(expr.left, c)
                r == Simplify(expr.right, l.ctx)
                rewritten ==
                    IF IsLiteral(l.expr) /\ ~IsLiteral(r.expr)
                    THEN constant_left(expr.type, l.expr.value, r.expr)
                    ELSE IF IsLiteral(r.expr) /\ ~IsLiteral(l.expr)
                    THEN constant_right(expr.type, l.expr, r.expr.value)
                    ELSE NoneExpr
                \* BinaryOperation._simplify
                b == IF IsLiteral(l.expr) /\ IsLiteral(r.expr)
                     THEN R(Literal(op(expr.type, l.expr.value, r.expr.value)), r.ctx)
                     ELSE IF rewritten # NoneExpr THEN Simplify(rewritten, r.ctx)
                     ELSE R(Binary(expr.type, l.expr, r.expr), r.ctx)
            \* MathsBinaryOperation._simplify
            IN  IF IsMaths(b.expr) /\ b.expr.left.type = "Positive"
                THEN Simplify(Binary(b.expr.type, b.expr.left.expr, b.expr.right), b.ctx)
                ELSE IF IsMaths(b.expr) /\ b.expr.right.type = "Positive"
                THEN Simplify(Binary(b.expr.type, b.expr.left, b.expr.right.expr), b.ctx)
                ELSE b
      [] expr.type = "And" ->
            LET l == Simplify(expr.left, c)
            IN  IF IsLiteral(l.expr)
                THEN IF as_bool(l.expr.value) THEN Simplify(expr.right, l.ctx) ELSE l
                ELSE LET r == Simplify(expr.right, l.ctx)
                     IN  R(Binary("And", l.expr, r.expr), r.ctx)
      [] expr.type = "Or" ->
            LET l == Simplify(expr.left, c)
            IN  IF IsLiteral(l.expr)
                THEN IF ~as_bool(l.expr.value) THEN Simplify(expr.right, l.ctx) ELSE l
                ELSE LET r == Simplify(expr.right, l.ctx)
                     IN  R(Binary("Or", l.expr, r.expr), r.ctx)
      [] expr.type = "Call" ->
            LET f == Simplify(expr.function, c)
                a == SimplifyList(expr.args, 1, f.ctx, <<>>)
                ks == SimplifyKeywords(expr.keyword_args, 1, a.ctx, <<>>)
                is_literal ==
                    /\ IsLiteral(f.expr) /\ HasObjects(f.expr.value)
                    /\ \A i \in 1..Len(a.out) : IsLiteral(a.out[i])
                    /\ \A i \in 1..Len(ks.out) : IsLiteral(ks.out[i].expr)
                folded == FoldCalls(f.expr.value, 1,
                                    [i \in 1..Len(a.out) |-> a.out[i].value],
                                    [n \in {ks.out[i].name : i \in 1..Len(ks.out)} |->
                                        ks.out[CHOOSE i \in 1..Len(ks.out) :
                                                  /\ ks.out[i].name = n
                                                  /\ \A j \in 1..Len(ks.out) :
                                                        ks.out[j].name = n => j <= i].expr.value],
                                    <<>>)
            IN  IF f.expr.type = "FunctionName"
                THEN Simplify(InlineLet(VGet(ks.ctx.variables, f.expr.name).e.expr,
                                        InlineBindings(VGet(ks.ctx.variables, f.expr.name).e,
                                                       a.out, ks.out)),
                              ks.ctx)
                ELSE IF is_literal /\ folded.ok THEN R(sequence_pack(folded.results), ks.ctx)
                ELSE R(Call(f.expr, a.out, ks.out), ks.ctx)
      [] expr.type \in {"Let", "StoreGlobal"} ->
            LET r == SimplifyBindings(expr.bindings, 1, c, <<>>)
            IN  IF r.out # <<>> THEN R(Let(r.out), r.ctx) ELSE R(NoOp, r.ctx)
      [] expr.type = "InlineLet" ->
            LET r == SimplifyBindings(expr.bindings, 1, c, <<>>)
                body == Simplify(expr.body, r.ctx)
                restored == [body.ctx EXCEPT !.variables = c.variables]
            IN  IF r.out # <<>> THEN R(InlineLet(body.expr, r.out), restored)
                ELSE R(body.expr, restored)
      [] expr.type = "For" ->
            LET src == Simplify(expr.source, c)
            IN  IF ~IsLiteral(src.expr)
                THEN LET body == Simplify(expr.body,
                                    [src.ctx EXCEPT !.variables =
                                        VSetAll(@, expr.names, 1, VNone)])
                     IN  R(For(expr.names, src.expr, body.expr),
                           [body.ctx EXCEPT !.variables = src.ctx.variables])
                ELSE LET r == Unroll(expr, src.expr.value, 0, src.ctx, <<>>)
                     IN  R(sequence_pack(r.out),
                           [r.ctx EXCEPT !.variables = src.ctx.variables])
      [] expr.type = "IfElse" -> SimplifyTests(expr, 1, c, <<>>)
      [] expr.type \in {"Attributes", "FastAttributes"} ->
            LET col == CollectBindings(expr, [c EXCEPT !.unbound = [on |-> TRUE, names |-> {}]],
                                       <<>>)
                fast == col.ctx.unbound.names = {}
                node == Simplify(col.node, [col.ctx EXCEPT !.unbound = c.unbound])
                set == IF IsLiteral(node.expr) /\ IsNodes(node.expr.value)
                       THEN SetLiteralBindings(node.ctx.heap, node.expr.value, col.bindings)
                       ELSE [heap |-> node.ctx.heap, bindings |-> col.bindings]
                c1 == [node.ctx EXCEPT !.heap = set.heap]
                again == IF IsLiteral(node.expr) /\ IsNodes(node.expr.value) /\ ~fast
                            /\ set.bindings # <<>> /\ Len(node.expr.value) = 1
                         THEN LET n == node.expr.value[1]
                                  attrs == c1.heap[n.id].attrs
                                  r == Resimplify(set.bindings, n,
                                           [c1 EXCEPT !.variables =
                                               AttributeVariables(@, attrs, DOMAIN attrs)])
                              IN  [bindings |-> r.bindings,
                                   ctx |-> [r.ctx EXCEPT !.variables = c1.variables]]
                         ELSE [bindings |-> set.bindings, ctx |-> c1]
                bindings == reversed(again.bindings)
            IN  IF bindings = <<>> THEN R(node.expr, again.ctx)
                ELSE IF fast THEN R(FastAttributes(node.expr, bindings), again.ctx)
                ELSE R(Attributes(node.expr, bindings), again.ctx)
      [] expr.type \in {"Append", "Prepend"} ->
            LET node == Simplify(expr.node, c)
                children == Simplify(expr.children, node.ctx)
            IN  IF IsLiteral(node.expr) /\ IsLiteral(children.expr)
                   /\ IsNodes(node.expr.value) /\ IsNodes(children.expr.value)
                THEN R(node.expr,
                       [children.ctx EXCEPT !.heap =
                           AttachCopies(@, node.expr.value, children.expr.value, 1, 1,
                                        expr.type = "Prepend")])
                ELSE R([expr EXCEPT !.node = node.expr, !.children = children.expr],
                       children.ctx)
      [] expr.type = "Function" ->
            LET p == SimplifyParameters(expr.parameters, 1, c, <<>>, TRUE)
                saved == p.ctx.variables
                known == SelectSeq(saved, LAMBDA entry : entry.value.t # "none")
                names == [i \in 1..Len(p.out) |-> p.out[i].name]
                inner == [p.ctx EXCEPT !.variables = VSetAll(known, names, 1, VNone),
                                       !.unbound = [on |-> TRUE, names |-> {}]]
                body == Simplify(expr.expr, inner)
                function == Function(expr.name, p.out, body.expr)
                variables == VSet(saved, expr.name,
                                  IF p.literal /\ body.ctx.unbound.names = {}
                                  THEN VFunc(function) ELSE VNone)
                unbound == IF c.unbound.on
                           THEN [on |-> TRUE,
                                 names |-> p.ctx.unbound.names
                                           \cup (body.ctx.unbound.names \ VNames(variables))]
                           ELSE p.ctx.unbound
            IN  R(function, [body.ctx EXCEPT !.variables = variables, !.unbound = unbound])

\* the variables that Expression.simplify starts from: the static values, then
\* the dynamic names
RECURSIVE StartVariables(_, _, _)
StartVariables(names, i, out) ==
    IF i > Len(names) THEN out
    ELSE StartVariables(names, i + 1, VSet(out, names[i], VNone))

\* Expression.simplify(state, static, dynamic)
simplification(expr) == Simplify(expr, SimplifyContext(StartVariables(scenario.dynamic, 1, <<>>)))

simplify(expr) == simplification(expr).expr

----------------------------------------------------------------------------
(* The programs and the surroundings of a run.  A scenario is what the host  *)
(* gives the engine: the tree, the run-time variables, the path of the       *)
(* program, the modules the loader can read, the tables of host functions   *)
(* and whether the tree is simplified before it is compiled.                *)

One == Literal(V1(1))
Pair == <<Num(1), Num(2)>>

Let1(name, expr) == Let(<<PolyBinding(<<name>>, expr)>>)

RunVariables == [n \in {"a", "v"} |-> IF n = "a" THEN V1(1) ELSE Pair]

\* run-time variables that have the name of a builtin and of a node attribute
ShadowVariables ==
    [n \in {"a", "v", "len", "size"} |->
        CASE n = "a" -> V1(1) [] n = "v" -> Pair [] n = "len" -> V1(9) [] n = "size" -> V1(8)]

\* the tables of functions.py, with and without a name that is in both
Tables ==
    [STATIC_FUNCTIONS |-> [n \in {"len"} |-> <<Host("len")>>],
     DYNAMIC_FUNCTIONS |-> [n \in {"sample"} |-> <<Host("sample")>>]]

OverlappingTables ==
    [STATIC_FUNCTIONS |-> [n \in {"len", "both"} |-> <<Host("len")>>],
     DYNAMIC_FUNCTIONS |-> [n \in {"sample", "both"} |-> <<Host("sample")>>]]

\* the modules the loader can read: A and B import each other, M defines x
\* only, N makes a node, an error and two variables, L defines a function that
\* imports from K when it is called, and K imports that function and calls it
Modules ==
    [f \in {"A", "B", "M", "N", "L", "K"} |->
        CASE f = "A" -> Top(<<Import(<<"b">>, Literal(<<Str("B")>>)),
                              Let1("a", One)>>)
          [] f = "B" -> Top(<<Import(<<"a", "c">>, Literal(<<Str("A")>>)),
                              Let1("b", Binary("Add", Name("a"), One))>>)
          [] f = "M" -> Top(<<Let1("x", Literal(V1(4)))>>)
          [] f = "N" -> Top(<<Literal(<<NodeValue("made", {}, EmptyDict)>>),
                              Let1("x", Name("zz")),
                              Let1("w", Literal(V1(6)))>>)
          [] f = "L" -> Top(<<Function("f", <<>>,
                                       Sequence(<<Import(<<"y">>, Literal(<<Str("K")>>)),
                                                  Name("y")>>))>>)
          [] f = "K" -> Top(<<Import(<<"f">>, Literal(<<Str("L")>>)),
                              Let1("y", Call(Name("f"), <<>>, <<>>))>>)]

Scenario(family, ast, variables, path, tables, simplified) ==
    [family |-> family, ast |-> ast, variables |-> variables, path |-> path,
     modules |-> Modules, STATIC_FUNCTIONS |-> tables.STATIC_FUNCTIONS,
     DYNAMIC_FUNCTIONS |-> tables.DYNAMIC_FUNCTIONS, dynamic |-> <<"a", "v">>,
     simplify |-> simplified, unoptimized |-> FALSE, heap |-> EmptyHeap]

\* the statements the programs of lets are made of
LetStatements ==
    { Let1("x", Name("a")),
      Let1("a", Literal(V1(5))),
      Let(<<PolyBinding(<<"y">>, Literal(V1(2))), PolyBinding(<<"x">>, Binary("Add", Name("a"), One))>>),
      Let1("x", Literal(V1(3))),
      Let(<<PolyBinding(<<"x", "y">>, Name("v"))>>),
      Pragma("q", InlineLet(Binary("Add", Name("x"), Name("y")),
                            <<PolyBinding(<<"x", "y">>, Name("v"))>>)),
      Pragma("q", InlineLet(Binary("Add", Name("x"), One), <<PolyBinding(<<"x">>, Name("v"))>>)) }

RECURSIVE Statements(_)
\* the sequences of at most n statements
Statements(n) ==
    IF n = 0 THEN {<<>>}
    ELSE LET shorter == Statements(n - 1)
         IN  shorter \cup {Append(ss, st) : ss \in shorter, st \in LetStatements}

LetScenarios ==
    {Scenario("lets", Top(Append(ss, Pragma("p", Name("x")))), RunVariables, "main",
              Tables, TRUE) : ss \in Statements(MaxTop) \ {<<>>}}

\* loops, conditionals, sequences, function definitions and calls
FeaturePrograms ==
    { Top(<<Pragma("l", For(<<"i">>, Name("v"), Binary("Add", Name("i"), Name("a")))),
            Pragma("p", For(<<"i", "j">>, Literal(Pair), Binary("Add", Name("i"), Name("j"))))>>),
      Top(<<Pragma("p", IfElse(<<IfCondition(Name("a"), Unary("Negative", Name("v")))>>,
                               NoneExpr)),
            Pragma("q", IfElse(<<IfCondition(Literal(false_), One),
                                 IfCondition(Name("zz"), One)>>,
                               Unary("Positive", Binary("Subtract", Name("v"), One))))>>),
      Top(<<Function("f", <<Binding("n", NoneExpr), Binding("m", One)>>,
                     Binary("Add", Name("n"), Name("m"))),
            Pragma("p", Call(Name("f"), <<Name("a")>>, <<>>)),
            Pragma("q", Call(Name("f"), <<>>, <<Binding("m", Literal(V1(3)))>>))>>),
      Top(<<Function("g", <<Binding("n", NoneExpr)>>, Binary("Add", Name("n"), Name("a"))),
            Pragma("p", Call(Name("g"), <<One>>, <<>>)),
            Pragma("q", Call(Name("len"), <<Literal(Pair)>>, <<>>))>>),
      Top(<<Pragma("p", Sequence(<<Let1("x", Name("a")), Name("x"), One>>)),
            Pragma("q", InlineSequence(<<Name("v"), Binary("And", Name("a"), One),
                                         Binary("Or", Literal(null_), Name("a"))>>)),
            Literal(<<NodeValue("window", {}, [n \in {"size"} |-> V1(3)])>>)>>) }

FeatureScenarios ==
    {Scenario("features", ast, RunVariables, "main", Tables, TRUE) : ast \in FeaturePrograms}

\* 'a and b', 'a or b': the right operand is a literal, an unbound name or a
\* call that raises
AndOrScenarios ==
    {Scenario("andor", Top(<<Pragma("p", Binary(t, l, r))>>), RunVariables, "main",
              Tables, FALSE) :
        t \in {"And", "Or"},
        l \in {Literal(null_), Literal(false_), One, Literal(<<Str("s")>>), Name("a")},
        r \in {Literal(V1(7)), Name("zz"), Call(Name("sample"), <<>>, <<>>)}}

\* what is called: one host function, a Function, several of them, something
\* that cannot be called, numbers
Callables ==
    { Literal(<<Host("len")>>), Name("sample"), Name("debug"), Name("f"),
      Literal(<<Host("len"), Host("sample")>>),
      InlineSequence(<<Name("f"), Literal(<<Host("sample")>>), Name("f")>>),
      Literal(<<Str("s")>>),
      Literal(<<Host("sample"), Str("s")>>),
      Literal(V1(4)) }

CallScenarios ==
    {Scenario("calls",
              Top(<<Function("f", <<Binding("n", Literal(V1(0)))>>, Binary("Add", Name("n"), One)),
                    Pragma("r", Call(c, args, ks))>>),
              RunVariables, "main", Tables, FALSE) :
        c \in Callables,
        args \in {<<>>, <<Literal(Pair)>>, <<One, Literal(V1(2))>>},
        ks \in {<<>>, <<Binding("n", Literal(V1(7)))>>}}

\* imports of modules that import each other, of a module that lacks a name
\* and of a file that cannot be read, from the main program and from module A
ImportScenarios ==
    {Scenario("imports",
              Top(<<Import(names, Literal(<<Str(f)>>)), Pragma("p", Name(names[1])),
                    Pragma("q", Name(names[Len(names)]))>>),
              RunVariables, path, Tables, FALSE) :
        names \in {<<"a">>, <<"b">>, <<"x", "y">>, <<"w", "x">>},
        f \in {"A", "B", "M", "N", "none"},
        path \in {"main", "A"}}
    \cup {Scenario("imports", Modules["A"], RunVariables, "A", Tables, FALSE)}
    \cup {Scenario("imports",
                  Top(<<Import(<<"y">>, Literal(<<Str("K")>>)), Pragma("p", Name("y"))>>),
                  RunVariables, "main", Tables, FALSE)}

\* a name, looked up at the top level and in the scope of a node
NameScenarios ==
    {Scenario("names", Top(<<Pragma("p", Name(n))>>), variables, "main", tables, FALSE) :
        n \in {"a", "len", "sample", "both", "size", "zz"},
        variables \in {RunVariables, ShadowVariables},
        tables \in {Tables, OverlappingTables}}
    \cup
    {Scenario("names",
              Top(<<Attributes(Literal(<<NodeValue("box", {}, [k \in {"size"} |-> V1(3)])>>),
                               <<Binding("w", Name(n))>>)>>),
              variables, "main", tables, FALSE) :
        n \in {"a", "len", "sample", "both", "size", "zz"},
        variables \in {RunVariables, ShadowVariables},
        tables \in {Tables, OverlappingTables}}

\* a node of the host, held by the variable n, with the nodes of literals
HostNode == Len(EmptyHeap) + 1
HostHeap == Append(EmptyHeap, NewNode("held", {}, EmptyDict))
NodeVariables ==
    [n \in {"a", "v", "n"} |->
        CASE n = "a" -> V1(1) [] n = "v" -> Pair [] n = "n" -> <<NodeRef(HostNode)>>]

NodeLit(kinds) == Literal([i \in 1..Len(kinds) |-> NodeValue(kinds[i], {}, EmptyDict)])

\* children appended and prepended to one and to two parents, taken from
\* literals and from the variable of the host, then the variable once more
NodeScenarios ==
    {[Scenario("nodes", Top(<<[type |-> t, node |-> parents, children |-> children], last>>),
               NodeVariables, "main", Tables, FALSE) EXCEPT !.heap = HostHeap] :
        t \in {"Append", "Prepend"},
        parents \in {NodeLit(<<"p">>), NodeLit(<<"p", "q">>),
                     NodeAppend(NodeLit(<<"p", "q">>), NodeLit(<<"old">>))},
        children \in {NodeLit(<<"c", "d">>), Name("n"),
                      InlineSequence(<<NodeLit(<<"c">>), Name("n"), NodeLit(<<"d">>)>>),
                      NodeAppend(NodeLit(<<"c">>), NodeLit(<<"e">>))},
        last \in {Name("n"), NodeAppend(NodeLit(<<"r">>), Name("n"))}}

\* functions: one that calls the function it is given, so that it is called
\* while it is executing, one whose body leaves a local behind, and locals of
\* the definer that change after the definition
FunctionPrograms ==
    { Top(<<Let1("c", Literal(V1(5))),
            Function("f", <<Binding("g", NoneExpr), Binding("n", Literal(V1(0)))>>,
                     Binary("Add",
                            IfElse(<<IfCondition(Name("n"),
                                                 Call(Name("g"), <<Name("g")>>, <<>>))>>,
                                   Literal(V1(0))),
                            Name("c"))),
            Pragma("p", Call(Name("f"), <<Name("f"), One>>, <<>>))>>),
      Top(<<Let1("c", Literal(V1(5))),
            Function("f", <<Binding("n", Literal(V1(0)))>>, Binary("Add", Name("n"), Name("c"))),
            Let1("c", Literal(V1(7))),
            Pragma("p", Call(Name("f"), <<One>>, <<Binding("n", Name("c"))>>))>>),
      Top(<<Function("h", <<Binding("n", NoneExpr)>>,
                     InlineLet(Binary("Add", Name("x"), Name("n")),
                               <<PolyBinding(<<"x", "y">>, Name("v"))>>)),
            Pragma("p", Call(Name("h"), <<One>>, <<>>))>>),
      Top(<<Function("k", <<Binding("n", NoneExpr)>>,
                     For(<<"i">>, Name("v"), Binary("Add", Name("i"), Name("n")))),
            Pragma("p", Call(Name("k"), <<One>>, <<>>)),
            Pragma("q", Call(Name("k"), <<>>, <<Binding("n", Literal(V1(2)))>>))>>) }

FunctionScenarios ==
    {Scenario("functions", ast, RunVariables, "main", Tables, FALSE) : ast \in FunctionPrograms}

\* programs with the pairs of instructions that Program.optimize rewrites
OptimizePrograms ==
    { Top(<<Pragma("p", InlineSequence(<<InlineSequence(<<Name("a"), Name("v")>>),
                                          Literal(V1(3))>>))>>),
      Top(<<Pragma("p", Sequence(<<Sequence(<<Name("a"), Name("v")>>), Name("a")>>))>>),
      Top(<<Let1("x", Binary("Add", InlineSequence(<<Name("a"), Name("v")>>),
                             InlineSequence(<<>>)))>>),
      Top(<<NodeAppend(NodeLit(<<"p", "q">>),
                       InlineSequence(<<NodeLit(<<"c">>), NodeLit(<<"d">>)>>))>>),
      Top(<<NodeAppend(NodeLit(<<"p">>), Literal(null_)), Literal(null_),
            NodeAppend(NodeLit(<<"q">>), InlineSequence(<<NodeLit(<<"c">>), Literal(null_)>>))>>),
      Top(<<Pragma("p", IfElse(<<IfCondition(Name("a"),
                                             InlineSequence(<<Name("a"), Name("v")>>))>>,
                               NoneExpr)),
            IfElse(<<IfCondition(Name("zz"), NodeLit(<<"p">>))>>, NoneExpr)>>) }

OptimizeScenarios ==
    {[Scenario("optimize", ast, RunVariables, "main", Tables, FALSE)
          EXCEPT !.unoptimized = TRUE] : ast \in OptimizePrograms}

\* x + y*z, which compiles to Mul; Add
MulAddScenarios ==
    {[Scenario("muladd",
               Top(<<Pragma("p", Binary("Add", x, Binary("Multiply", y, z)))>>),
               RunVariables, "main", Tables, FALSE) EXCEPT !.unoptimized = TRUE] :
        x \in {Name("a"), Literal(V1(0))},
        y \in {Literal(V1(2)), Name("v")},
        z \in {Literal(V1(3)), One}}

\* the sources the loops run over, of length 0 to 3
LoopSources == {null_, V1(7), <<Num(7), Num(8)>>, <<Num(7), Num(8), Num(9)>>}

\* the names of a loop
LoopNames == {<<"i">>, <<"i", "j">>}

\* a body that gives the loop names, last name first
LoopBody(names) ==
    IF Len(names) = 1 THEN Name(names[1])
    ELSE InlineSequence(<<Name(names[2]), Name(names[1])>>)

\* 'for names in source', the source a literal or the run-time variable v
LoopScenarios ==
    {Scenario("loops",
              Top(<<Pragma("p", For(names, IF fixed THEN Literal(values) ELSE Name("v"),
                                    LoopBody(names)))>>),
              [n \in {"a", "v"} |-> IF n = "a" THEN V1(1) ELSE values], "main", Tables, TRUE) :
        names \in LoopNames, values \in LoopSources, fixed \in BOOLEAN}

\* a loop in the body of a loop
NestedLoopPrograms ==
    { Top(<<Pragma("p", For(<<"i">>, Name("v"),
                            For(<<"j", "k">>, Literal(<<Num(7), Num(8), Num(9)>>),
                                InlineSequence(<<Name("k"),
                                                 Binary("Add", Name("i"), Name("j"))>>))))>>),
      Top(<<Pragma("p", For(<<"i">>, Name("v"),
                            InlineSequence(<<For(<<"j">>, Name("v"),
                                                 Binary("Add", Name("i"), Name("j"))),
                                             Name("i")>>)))>>) }

\* a body that is not a literal once the loop names are: the names but the
\* first, last name first, then the first name plus the run-time variable a
UnrollBody(names) ==
    IF Len(names) = 1 THEN Binary("Add", Name(names[1]), Name("a"))
    ELSE InlineSequence(<<Name(names[2]), Binary("Add", Name(names[1]), Name("a"))>>)

\* 'for names in source' with a literal source
UnrollScenarios ==
    {Scenario("unroll", Top(<<Pragma("p", For(names, Literal(values), UnrollBody(names)))>>),
              RunVariables, "main", Tables, TRUE) :
        names \in LoopNames, values \in LoopSources}

\* a literal node with the attribute size
Sized(kind, size) == NodeValue(kind, {}, [k \in {"size"} |-> V1(size)])

\* '!a size=3 x=5 y=len(!b size=4 z=size) w=x'
NestedScopeProgram ==
    Top(<<Attributes(Literal(<<Sized("a", 3)>>),
                     <<Binding("x", Literal(V1(5))),
                       Binding("y", Call(Name("len"),
                                         <<Attributes(Literal(<<Sized("b", 4)>>),
                                                      <<Binding("z", Name("size"))>>)>>,
                                         <<>>)),
                       Binding("w", Name("x"))>>)>>)

\* attributes of one literal node, of two literal nodes, and of a node inside
\* a binding of another node, the bindings reading attributes of their node
ScopePrograms ==
    { Top(<<Attributes(Literal(<<Sized("a", 3)>>),
                       <<Binding("x", Literal(V1(5))),
                         Binding("w", Binary("Add", Name("x"), Name("size")))>>)>>),
      Top(<<Attributes(Literal(<<Sized("a", 3), Sized("b", 4)>>),
                       <<Binding("x", Name("size")),
                         Binding("w", Binary("Add", Name("x"), One))>>)>>),
      NestedScopeProgram }

ScopeScenarios ==
    {Scenario("scopes", ast, RunVariables, "main", Tables, FALSE) : ast \in ScopePrograms}

\* the literal operands of the rewrites
Factors == {V1(2), <<Num(2), Num(3)>>}
Terms == {V1(5), <<Num(1), Num(2), Num(3)>>}

\* the values of the run-time operand v: null, of length 2 and 6, a string
Operands ==
    {null_, <<Num(4), Num(5)>>, <<Num(1), Num(2), Num(3), Num(4), Num(5), Num(6)>>,
     <<Str("s")>>}

\* the expressions that Add, Subtract and Multiply rewrite when an operand is
\* a literal
AlgebraExpressions ==
    {Binary("Multiply", Literal(c), Binary("Add", Literal(l), Name("v"))) :
        c \in Factors, l \in Terms}
    \cup {Binary("Multiply", Literal(c), Binary("Subtract", Name("v"), Literal(l))) :
            c \in Factors, l \in Terms}
    \cup {Binary("Multiply", Literal(c), Binary("Multiply", Literal(l), Name("v"))) :
            c \in Factors, l \in Terms}
    \cup {Binary("Subtract", Name("v"), Literal(c)) : c \in Factors}
    \cup {Binary("Add", Literal(c), Unary("Negative", Name("v"))) : c \in Factors}
    \cup {Binary("Multiply", Literal(c), Unary("Negative", Name("v"))) : c \in Factors}
    \cup {Binary("Add", Literal(false_), Name("v")),
          Binary("Subtract", Name("v"), Literal(false_)),
          Binary("Multiply", Literal(true_), Name("v")),
          Binary("Subtract", Literal(false_), Name("v")),
          Binary("Multiply", Literal(minusone_), Name("v"))}

AlgebraScenarios ==
    {Scenario("algebra", Top(<<Pragma("p", e)>>),
              [n \in {"a", "v"} |-> IF n = "a" THEN V1(1) ELSE x], "main", Tables, TRUE) :
        e \in AlgebraExpressions, x \in Operands}

\* a name bound before a let of two names, an inline let of one name and of
\* two names, a loop, or an import, and read after it
DepthPrograms ==
    { Top(<<Let1("z", Literal(V1(7))), inner, Pragma("p", Name("z"))>>) :
        inner \in
          { Let(<<PolyBinding(<<"x", "y">>, Name("v"))>>),
            Pragma("q", InlineLet(Binary("Add", Name("x"), Name("z")),
                                  <<PolyBinding(<<"x">>, Name("v"))>>)),
            Pragma("q", InlineLet(Binary("Add", Name("x"), Name("y")),
                                  <<PolyBinding(<<"x", "y">>, Name("v"))>>)),
            Pragma("q", For(<<"i", "j">>, Name("v"), Binary("Add", Name("i"), Name("z")))),
            Import(<<"x", "y">>, Literal(<<Str("M")>>)) } }

DepthScenarios ==
    {[Scenario("depths", ast, RunVariables, "main", Tables, FALSE)
          EXCEPT !.unoptimized = TRUE] : ast \in DepthPrograms}

NestedLoopScenarios ==
    {Scenario("nested", ast, RunVariables, "main", Tables, TRUE) : ast \in NestedLoopPrograms}

\* the Node objects that the literals of a tree hold: p, c and q
ObjectHeap ==
    EmptyHeap \o <<NewNode("p", {}, EmptyDict), NewNode("c", {}, EmptyDict),
                   NewNode("q", {}, DictSet(EmptyDict, "w", V1(4)))>>
NodeP == Len(EmptyHeap) + 1
NodeC == NodeP + 1
NodeQ == NodeC + 1
Obj(ids) == Literal([i \in 1..Len(ids) |-> NodeRef(ids[i])])

\* trees with node literals: bound to a name used twice, in the body of an
\* unrolled loop, with attributes and with children
ObjectPrograms ==
    { Top(<<Let1("x", Obj(<<NodeP>>)), Name("x"), Name("x")>>),
      Top(<<Let1("x", Obj(<<NodeP>>)), NodeAppend(Name("x"), Name("x"))>>),
      Top(<<For(<<"i">>, Literal(<<Num(0), Num(1)>>),
                Attributes(Obj(<<NodeP>>), <<Binding("k", Name("i"))>>))>>),
      Top(<<NodeAppend(Obj(<<NodeP>>), Obj(<<NodeC>>)), Obj(<<NodeC>>)>>),
      Top(<<Attributes(NodeAppend(Obj(<<NodeP, NodeQ>>), Obj(<<NodeC>>)),
                       <<Binding("k", Literal(V1(1)))>>)>>),
      Top(<<Attributes(Obj(<<NodeQ>>),
                       <<Binding("h", Name("w")), Binding("w", Literal(null_))>>)>>),
      Top(<<Attributes(Obj(<<NodeP>>),
                       <<Binding("w", Literal(V1(2))), Binding("h", Name("w"))>>)>>),
      Top(<<Attributes(Obj(<<NodeP, NodeQ>>), <<Binding("k", Name("a"))>>), Obj(<<NodeQ>>)>>),
      Top(<<NodePrepend(Obj(<<NodeP>>), Obj(<<NodeC, NodeQ>>))>>),
      Top(<<Attributes(Obj(<<NodeP, NodeQ>>),
                       <<Binding("w", Literal(null_)), Binding("k", Name("a"))>>)>>),
      Top(<<NodeAppend(Obj(<<NodeP>>), Name("zz")), Obj(<<NodeP>>)>>) }

ObjectScenarios ==
    {[Scenario("objects", ast, RunVariables, "main", Tables, TRUE)
          EXCEPT !.heap = ObjectHeap] : ast \in ObjectPrograms}

\* sequences of up to three values of every sort: null, one number, two
\* numbers, a string
Parts == {Literal(null_), Literal(V1(7)), Name("v"), Literal(<<Str("s")>>)}
ComposePrograms ==
    {Top(<<Pragma("p", InlineSequence(parts))>>) :
        parts \in {<<>>} \cup {<<x>> : x \in Parts} \cup {<<x, y>> : x, y \in Parts}
                  \cup {<<Name("v"), x, y>> : x, y \in Parts}
                  \cup {<<Literal(null_), x, Literal(null_)>> : x \in Parts}}

ComposeScenarios ==
    {Scenario("compose", ast, RunVariables, "main", Tables, FALSE) : ast \in ComposePrograms}

\* functions that call a function: themselves by name, each other by name
\* (and are not called), and a parameter that is the function itself; the
\* calls are under a condition that is false in the run
Guarded(call) == IfElse(<<IfCondition(Name("c"), call)>>, NoneExpr)
RecursionPrograms ==
    { Top(<<Function("f", <<Binding("c", NoneExpr)>>,
                     Guarded(Call(Name("f"), <<Name("c")>>, <<>>))),
            Pragma("p", Call(Name("f"), <<Binary("Subtract", Name("a"), One)>>, <<>>))>>),
      Top(<<Function("g", <<Binding("c", NoneExpr)>>, Call(Name("f"), <<Name("c")>>, <<>>)),
            Function("f", <<Binding("c", NoneExpr)>>, Call(Name("g"), <<Name("c")>>, <<>>))>>),
      Top(<<Function("f", <<Binding("g", NoneExpr), Binding("c", NoneExpr)>>,
                     Guarded(Call(Name("g"), <<Name("g"), Name("c")>>, <<>>))),
            Pragma("p", Call(Name("f"), <<Name("f"), Binary("Subtract", Name("a"), One)>>,
                             <<>>))>>) }

RecursionScenarios ==
    {Scenario("recursion", ast, RunVariables, "main", Tables, TRUE) : ast \in RecursionPrograms}

Scenarios ==
    ObjectScenarios \cup ComposeScenarios \cup RecursionScenarios \cup LoopScenarios \cup UnrollScenarios \cup NestedLoopScenarios \cup ScopeScenarios
    \cup AlgebraScenarios \cup DepthScenarios
    \cup LetScenarios \cup FeatureScenarios \cup AndOrScenarios \cup CallScenarios
    \cup ImportScenarios \cup NameScenarios \cup NodeScenarios \cup FunctionScenarios
    \cup OptimizeScenarios \cup MulAddScenarios

----------------------------------------------------------------------------
(* The state machine *)

\* a Program object in the hands of a host: the object, the tree it was
\* compiled from, the number of objects and of calls so far, the last call
Held(p, expr, id, n, call) ==
    [instructions |-> p.instructions, linked |-> p.linked, raised |-> p.raised,
     expr |-> expr, id |-> id, calls |-> n, call |-> call]

\* no Program object in the hands of the host
NoProgram == Held(Unlinked(<<>>), Top(<<>>), 0, 0, "none")

\* self._stream = None
NoStream == [id |-> 0, device |-> "none", baudrate |-> 0]

\* EntecDMXDriver.__init__, with what the serial ports have seen so far: the
\* number of streams opened, the streams closed, the streams on which the
\* GetParameters request was answered, the packets written by the last update
\* and the exception it ended with
NoDriver ==
    [stream |-> NoStream, failed |-> FALSE, parameters |-> FALSE,
     opened |-> 0, closed |-> {}, answered |-> {}, written |-> <<>>, raised |-> "",
     updates |-> 0]

\* ModelCache = {} and the objects of a renderer, with the models the
\* renderer holds for the frame, the models whose mesh is built, and the last call
NoCache ==
    [ModelCache |-> <<>>, objects |-> {}, held |-> {}, built |-> {},
     call |-> "none", name |-> "", removed |-> <<>>, buffers |-> FALSE]

Init ==
    /\ scenario \in Scenarios
    /\ status = "idle"
    /\ simp = <<>>
    /\ runs = <<>>
    /\ frames = <<>>
    /\ contexts = <<>>
    /\ errors = {}
    /\ logs = {}
    /\ pragmas = EmptyDict
    /\ heap = scenario.heap
    /\ calls = <<>>
    /\ executed = {}
    /\ prog = NoProgram
    /\ dmx = NoDriver
    /\ cache = NoCache

Done == status \in {"returned", "AssertionError"}

\* the host simplifies the tree, and simplifies the result once more
SimplifyTree ==
    /\ Done
    /\ scenario.simplify
    /\ Len(runs) = 1
    /\ Len(simp) < 2
    /\ LET r == simplification(IF simp = <<>> THEN scenario.ast ELSE simp[Len(simp)])
       IN  IF r.ctx.overflow
           THEN status' = "StackOverflow" /\ UNCHANGED <<simp, heap>>
           ELSE /\ simp' = Append(simp, r.expr)
                /\ heap' = r.ctx.heap
                /\ status' = status
    /\ UNCHANGED <<hosts, scenario, runs, frames, contexts, errors, logs, pragmas, calls, executed>>

\* Program.run of the program compiled from the simplified tree
RunSimplified ==
    /\ Done
    /\ Len(runs) = 1
    /\ Len(simp) = 2
    /\ Begin(compile(simp[1]))
    /\ UNCHANGED <<hosts, scenario, simp, runs>>

\* Program.run of the program compiled from the tree and linked, without
\* Program.optimize
RunUnoptimized ==
    /\ Done
    /\ scenario.unoptimized
    /\ Len(runs) = 1
    /\ Begin(Link(Compile(scenario.ast, NewProgram(<<>>)).code))
    /\ UNCHANGED <<hosts, scenario, simp, runs>>

\* Program.run of the same program once more, with the same variables
RunAgain ==
    /\ Done
    /\ scenario.family = "objects"
    /\ Len(runs) = 2
    /\ Begin(compile(scenario.ast))
    /\ UNCHANGED <<hosts, scenario, simp, runs>>

Next ==
    \/ Run
    \/ RunAgain
    \/ RunUnoptimized
    \/ Finish
    \/ StackInstruction
    \/ JumpInstruction
    \/ PragmaInstruction
    \/ LiteralNodeInstruction
    \/ LocalInstruction
    \/ NameInstruction
    \/ MathsInstruction
    \/ StoreGlobalInstruction
    \/ LoopInstruction
    \/ NodeInstruction
    \/ FuncInstruction
    \/ CallFastInstruction
    \/ CallInstruction
    \/ CallHost
    \/ CallFunction
    \/ FunctionReturn
    \/ CallEnd
    \/ ImportInstruction
    \/ ImportReturn
    \/ SimplifyTree
    \/ RunSimplified

Spec == Init /\ [][Next]_vars

----------------------------------------------------------------------------
(* Program objects in the hands of a host that calls their methods in any
   order: Program.optimize, Program.link, Program.run, and Expression.compile,
   which makes the three calls in the order the engine uses. *)

MaxPrograms == 2
MaxCalls == 3

\* functions whose bodies hold the pairs of instructions that Program.optimize rewrites
NestedPrograms ==
    { Top(<<Function("f", <<Binding("x", NoneExpr)>>,
                     Binary("Add", Name("x"), Binary("Multiply", Name("x"), Name("v")))),
            Pragma("p", Call(Name("f"), <<One>>, <<>>))>>),
      Top(<<Function("f", <<Binding("x", NoneExpr)>>,
                     InlineSequence(<<InlineSequence(<<Name("x"), Name("v")>>), Name("x")>>)),
            Function("g", <<Binding("y", NoneExpr)>>,
                     IfElse(<<IfCondition(Name("y"),
                                          NodeAppend(NodeLit(<<"p">>),
                                                     InlineSequence(<<Name("y"), Name("v")>>)))>>,
                            NoneExpr))>>) }

HostPrograms ==
    OptimizePrograms \cup FunctionPrograms \cup NestedPrograms
        \cup {sc.ast : sc \in MulAddScenarios}

\* the main variables of a host that runs no program
Idle ==
    /\ scenario = Scenario("idle", Top(<<>>), RunVariables, "main", Tables, FALSE)
    /\ status = "idle"
    /\ simp = <<>>
    /\ runs = <<>>
    /\ frames = <<>>
    /\ contexts = <<>>
    /\ errors = {}
    /\ logs = {}
    /\ pragmas = EmptyDict
    /\ heap = scenario.heap
    /\ calls = <<>>
    /\ executed = {}

main == <<scenario, status, simp, runs, frames, contexts, errors, logs, pragmas,
          heap, calls, executed>>

InitProgram == Idle /\ prog = NoProgram /\ dmx = NoDriver /\ cache = NoCache

\* the object as the next call finds it: the exception of the last call is gone
Object(p) == [instructions |-> p.instructions, linked |-> p.linked, raised |-> ""]

\* Program(): Expression._compile into a new Program object
ProgramCompile ==
    /\ prog.id < MaxPrograms
    /\ \E expr \in HostPrograms :
           prog' = Held(Unlinked(Compile(expr, NewProgram(<<>>)).code), expr,
                        prog.id + 1, 0, "_compile")
    /\ UNCHANGED <<main, dmx, cache>>

\* Expression.compile
ExpressionCompile ==
    /\ prog.id < MaxPrograms
    /\ \E expr \in HostPrograms :
           prog' = Held(Compiled(expr), expr, prog.id + 1, 0, "compile")
    /\ UNCHANGED <<main, dmx, cache>>

\* one more call on the object the host holds
CallProgram(method(_), name) ==
    /\ prog.id > 0
    /\ prog.calls < MaxCalls
    /\ prog' = Held(method(Object(prog)), prog.expr, prog.id, prog.calls + 1, name)
    /\ UNCHANGED <<main, dmx, cache>>

ProgramOptimize == CallProgram(optimize, "optimize")

ProgramLink == CallProgram(link, "link")

\* Program.run, as far as the assert of Program._execute
ProgramRun == CallProgram(execute, "run")

NextProgram ==
    \/ ProgramCompile
    \/ ExpressionCompile
    \/ ProgramOptimize
    \/ ProgramLink
    \/ ProgramRun

SpecProgram == InitProgram /\ [][NextProgram]_vars

----------------------------------------------------------------------------
(* The Entec DMX driver.  The serial port is the environment: opening it,
   writing to it and reading the answer to GetParameters each end in one of
   the ways the calls can end. *)

MaxUpdates == 3

DEFAULT_BAUD_RATE == 57600
GetParameters == 3
SendDMXPacket == 6

\* node.get('device', 1, str): no device, or the path of one
Devices == {"none", "ttyA", "ttyB"}
BaudRates == {DEFAULT_BAUD_RATE, 2 * DEFAULT_BAUD_RATE}

\* SerialStream(...) and SerialStream.stream_matching(...)
Connections == {"stream", "SerialException"}
\* send_packet(GetParameters) and recv_packet: the answer, an answer with
\* another label, an error of the port, no answer within the timeout
Handshakes == {"GetParameters", "ReceivedDMXPacket", "SerialException", "TimeoutError"}
\* self._stream.write(data)
Writes == {"written", "SerialException"}

\* EntecDMXDriver.close
close(d) ==
    IF d.stream.id # 0
    THEN [d EXCEPT !.closed = @ \cup {d.stream.id}, !.stream = NoStream]
    ELSE d

\* EntecDMXDriver.send_packet on a port that takes the packet
send_packet(d, label) == [d EXCEPT !.written = Append(@, [label |-> label, stream |-> d.stream.id])]

\* update: the stream of the last update is closed for another device, or
\* gets the baud rate of the node
Retained(d, device, baudrate) ==
    IF d.stream.id = 0 THEN d
    ELSE IF device # "none" /\ device # d.stream.device
    THEN [d EXCEPT !.closed = @ \cup {d.stream.id}, !.stream = NoStream]
    ELSE [d EXCEPT !.stream.baudrate = baudrate]

\* update: except (ConnectionError, SerialException)
Unable(d) == [d EXCEPT !.failed = TRUE]

\* update: the attempt to connect when there is no stream
Connected(d, device, baudrate, connection, handshake) ==
    IF d.stream.id # 0 THEN d
    ELSE IF connection = "SerialException" THEN Unable(d)
    ELSE LET stream == [id |-> d.opened + 1,
                        device |-> IF device = "none" THEN "ttyA" ELSE device,
                        baudrate |-> baudrate]
             opened == [d EXCEPT !.stream = stream, !.opened = @ + 1]
             asked == send_packet(opened, GetParameters)
         IN  CASE handshake = "GetParameters" ->
                    [asked EXCEPT !.parameters = TRUE, !.failed = FALSE,
                                  !.answered = @ \cup {stream.id}]
               [] handshake = "ReceivedDMXPacket" -> Unable(asked)
               [] handshake = "SerialException" -> Unable(asked)
               [] handshake = "TimeoutError" -> [asked EXCEPT !.raised = "TimeoutError"]

\* update: the data packet
Sent(d, write) ==
    IF d.raised # "" \/ d.stream.id = 0 THEN d
    ELSE IF write = "written" THEN send_packet(d, SendDMXPacket)
    ELSE [close(d) EXCEPT !.failed = TRUE]

\* EntecDMXDriver.update
update(d, device, baudrate, connection, handshake, write) ==
    LET started == [d EXCEPT !.written = <<>>, !.raised = "", !.updates = @ + 1]
    IN  Sent(Connected(Retained(started, device, baudrate),
                       device, baudrate, connection, handshake), write)

InitDMX == Idle /\ prog = NoProgram /\ dmx = NoDriver /\ cache = NoCache

Update ==
    /\ dmx.updates < MaxUpdates
    /\ \E device \in Devices, baudrate \in BaudRates, connection \in Connections,
          handshake \in Handshakes, write \in Writes :
           dmx' = update(dmx, device, baudrate, connection, handshake, write)
    /\ UNCHANGED <<main, prog, cache>>

\* the host closes the driver
Close ==
    /\ dmx.stream.id # 0
    /\ dmx' = close(dmx)
    /\ UNCHANGED <<main, prog, cache>>

NextDMX == Update \/ Close

SpecDMX == InitDMX /\ [][NextDMX]_vars

----------------------------------------------------------------------------
(* The cache of models of the window renderer.  ModelCache is a dict: a
   sequence of names in the order of insertion.  The models of a frame are
   looked up while the scene is collected and their buffers are asked for
   when the frame is drawn. *)

\* 4096 in the source; the model keeps the cache small
MaxModelCacheEntries == 2

ModelNames == {"box", "sphere", "cone", "box/t"}

\* ModelCache.pop(name, None)
Without(cached, name) == SelectSeq(cached, LAMBDA n : n # name)

\* TransformedModel.get and the get of every other kind of model:
\* ModelCache.pop(name, None), a new model if there was none, ModelCache[name] = model
get(cached, name) == Append(Without(cached, name), name)

\* Model.get_buffers: while len(ModelCache) > MaxModelCacheEntries
RECURSIVE Trimmed(_)
Trimmed(c) ==
    IF Len(c.ModelCache) > MaxModelCacheEntries
    THEN LET dead_name == Head(c.ModelCache)
         IN  Trimmed([c EXCEPT !.ModelCache = Tail(@),
                               !.objects = @ \ {dead_name},
                               !.built = @ \ {dead_name},
                               !.removed = Append(@, dead_name)])
    ELSE c

\* Model.get_buffers
get_buffers(c, name, valid, mesh) ==
    LET called == [c EXCEPT !.call = "get_buffers", !.name = name, !.removed = <<>>,
                            !.buffers = FALSE]
    IN  IF valid /\ name \in c.objects THEN called
        ELSE IF ~mesh THEN [called EXCEPT !.objects = @ \ {name}]
        ELSE LET trimmed == Trimmed(called)
             IN  [trimmed EXCEPT !.objects = @ \cup {name}, !.built = @ \cup {name},
                                 !.buffers = TRUE]

InitCache == Idle /\ prog = NoProgram /\ dmx = NoDriver /\ cache = NoCache

\* the renderer collects a model of the scene
Lookup ==
    /\ \E name \in ModelNames :
           cache' = [cache EXCEPT !.ModelCache = get(@, name), !.held = @ \cup {name},
                                  !.call = "get", !.name = name, !.removed = <<>>,
                                  !.buffers = FALSE]
    /\ UNCHANGED <<main, prog, dmx>>

\* the renderer draws a model of the frame; check_valid() holds only of a
\* model that was built, and the mesh may be None
GetBuffers ==
    /\ \E name \in cache.held, valid \in BOOLEAN, mesh \in BOOLEAN :
           /\ valid => name \in cache.built
           /\ cache' = get_buffers(cache, name, valid, mesh)
    /\ UNCHANGED <<main, prog, dmx>>

\* the frame is drawn
EndFrame ==
    /\ cache.held # {}
    /\ cache' = [cache EXCEPT !.held = {}, !.call = "none", !.name = "", !.removed = <<>>,
                              !.buffers = FALSE]
    /\ UNCHANGED <<main, prog, dmx>>

NextCache == Lookup \/ GetBuffers \/ EndFrame

SpecCache == InitCache /\ [][NextCache]_vars


----------------------------------------------------------------------------
(* Properties *)

\* the top activation after the step
FNext == frames'[Len(frames')]

Nulls(n) == [i \in 1..n |-> null_]

FirstRunDone == Len(runs) >= 1

C2_SimplifiedRunEqual ==
    (Len(runs) = 2 /\ runs[1].status = "returned" /\ runs[2].status = "returned")
        => (runs[2].graph = runs[1].graph /\ runs[2].pragmas = runs[1].pragmas)

\* an Import instruction is about to be executed
AtImport == Fetching /\ Instruction.op = "Import"

ImportFile == as_string(peek(F.stack))

\* the path is the path of the importing context or of one of its parents
OnParentChain(path) == \E c \in 1..F.ctx : contexts[c].path = path

\* the first expression of the program imports module A or module B, which
\* import each other
MutualImports ==
    /\ scenario.family = "imports"
    /\ scenario.ast.expressions[1].type = "Import"
    /\ as_string(scenario.ast.expressions[1].filename.value) \in {"A", "B"}

\* C3: an Import of a module whose path is on the parent chain of the
\* importing context does not execute the module, records a "Circular import"
\* error and binds every requested name to null; a run over two modules that
\* import each other records exactly one "Circular import" error.
C3_CircularImport ==
    /\ [][(AtImport /\ HasProgram(ImportFile) /\ OnParentChain(ImportFile)) =>
            /\ Len(frames') = Len(frames)
            /\ contexts' = contexts
            /\ Error("Circular import", ImportFile) \in errors'
            /\ FNext.lvars = F.lvars \o Nulls(Len(Instruction.value))
            /\ FNext.pc = F.pc + 1]_vars
    /\ []((MutualImports /\ FirstRunDone) =>
            Cardinality({e \in runs[1].errors : e.kind = "Circular import"}) = 1)

\* module B, imported by A, has met the circular import of A: both of its
\* names are null and B goes on
C3_Witness ==
    /\ scenario.family = "imports"
    /\ status = "running"
    /\ Len(frames) = 3
    /\ F.kind = "import"
    /\ contexts[F.ctx].path = "B"
    /\ F.lvars = <<null_, null_>>
    /\ F.pc = 2
    /\ Error("Circular import", "A") \in errors

\* the module of the top activation has run to its end
ModuleFinished ==
    /\ status = "running"
    /\ F.kind = "import"
    /\ F.pending = NoPending
    /\ F.pc = Len(F.code)
    /\ F.stack = <<>>
    /\ F.lvars = <<>>

\* C4: an Import for which the loader has no program records an error and
\* binds every requested name to null; an Import of a module that runs binds
\* each name the module defines to its value and each name it lacks to null,
\* with an error for that name only; in both cases as many locals are pushed as
\* names are requested and the importer goes on with its next instruction.
C4_FailedImport ==
    /\ [][(AtImport /\ ~HasProgram(ImportFile)) =>
            /\ Len(frames') = Len(frames)
            /\ \E e \in errors' : e.what = ImportFile
            /\ FNext.lvars = F.lvars \o Nulls(Len(Instruction.value))
            /\ FNext.pc = F.pc + 1]_vars
    /\ [][ModuleFinished =>
            LET importer == frames[Len(frames) - 1]
                names == importer.pending.names
                defined == contexts[F.ctx].variables
                lacking == {names[i] : i \in {j \in 1..Len(names) : names[j] \notin DOMAIN defined}}
            IN  /\ Len(frames') = Len(frames) - 1
                /\ FNext.lvars = importer.lvars \o
                        [i \in 1..Len(names) |->
                            IF names[i] \in DOMAIN defined THEN defined[names[i]] ELSE null_]
                /\ \A n \in lacking : \E e \in errors' : e.what = n
                /\ \A e \in errors' \ errors : e.what \in lacking
                /\ FNext.pc = importer.pc + 1]_vars

\* x and y have been imported from module M, which defines x only
C4_Witness ==
    /\ scenario.family = "imports"
    /\ status = "running"
    /\ Len(frames) = 1
    /\ F.pc = 2
    /\ F.lvars = <<V1(4), null_>>
    /\ {e \in errors : e.kind = "Unable to import name"} = {Error("Unable to import name", "y")}

\* the 'a and b' or 'a or b' of a program of the family andor
AndOr == scenario.ast.expressions[1].expr

\* the value of an operand that is a literal or a run-time variable
OperandValue(e) == IF IsLiteral(e) THEN e.value ELSE scenario.variables[e.name]

\* the addresses of the instructions of the right operand: after the Drop and
\* before the Label
RightOperand ==
    LET code == compile(scenario.ast)
        first == CHOOSE i \in 1..Len(code) : code[i].op = "Drop"
        last == CHOOSE i \in 1..Len(code) : code[i].op = "Label"
    IN  {pc \in 0..(Len(code) - 1) : pc + 1 > first /\ pc + 1 < last}

\* whether the right operand has to be evaluated
NeedsRight == IF AndOr.type = "And" THEN as_bool(OperandValue(AndOr.left))
              ELSE ~as_bool(OperandValue(AndOr.left))

\* C5: when the value of 'a and b' or 'a or b' is about to be used, the
\* instructions of b have been executed if and only if a was truthy (and) or
\* falsy (or), exactly one value is on the stack, it is a when b was skipped
\* and b otherwise, and a skipped b has recorded no error.
C5_ShortCircuit ==
    (scenario.family = "andor" /\ Fetching /\ Instruction.op = "Pragma") =>
        /\ Len(F.stack) = 1
        /\ IF NeedsRight
           THEN /\ RightOperand \subseteq executed
                /\ peek(F.stack) = IF IsLiteral(AndOr.right) THEN AndOr.right.value ELSE null_
           ELSE /\ RightOperand \cap executed = {}
                /\ peek(F.stack) = OperandValue(AndOr.left)
                /\ errors = {}

\* 's' or zz: the unbound name has been skipped
C5_Witness ==
    /\ scenario.family = "andor"
    /\ AndOr = Binary("Or", Literal(<<Str("s")>>), Name("zz"))
    /\ Fetching
    /\ Instruction.op = "Pragma"
    /\ F.stack = <<<<Str("s")>>>>
    /\ errors = {}

\* C6: when a host function called by CallFast or by Call raises, an error is
\* recorded, null is pushed where the result would be, and the program goes on:
\* the value of the call is the only value on the stack when it is used.
C6_HostFunctionRaises ==
    /\ [][(/\ Fetching
           /\ Instruction.op = "CallFast"
           /\ HostCall(Instruction.obj.name, pop_tuple(F.stack, Instruction.value),
                       EmptyDict).raised) =>
            /\ \E e \in errors' : e.kind = "Error calling"
            /\ FNext.stack = push(drop(F.stack, Instruction.value), null_)
            /\ FNext.pc = F.pc + 1]_vars
    /\ [][(/\ InCall
           /\ F.pending.i < Len(F.pending.callables)
           /\ IsCallable(Callee)
           /\ ~IsDebugCall(Callee, F.pending.args, F.pending.haskw)
           /\ HostCall(Callee.name, F.pending.args, F.pending.kwargs).raised) =>
            /\ Error("Error calling", Callee.name) \in errors'
            /\ FNext.stack = push(F.stack, null_)
            /\ FNext.pending.i = F.pending.i + 1]_vars
    /\ []((scenario.family = "calls" /\ Fetching /\ Instruction.op = "Pragma") =>
            Len(F.stack) = 1)

\* len(1, 2) through CallFast has raised: null is the value of the call
C6_Witness ==
    /\ scenario.family = "calls"
    /\ Fetching
    /\ Instruction.op = "Pragma"
    /\ F.code[F.pc].op = "CallFast"
    /\ F.stack = <<null_>>
    /\ Error("Error calling", "None") \in errors

\* C7: the Name instruction pushes the variable of that name of the context,
\* else the static builtin, else the dynamic builtin, else the attribute of
\* that name of the node in scope, else null with an unbound-name error; and
\* the program goes on.
C7_NameLookup ==
    [][(Fetching /\ Instruction.op = "Name") =>
        LET name == Instruction.value
            variables == contexts[F.ctx].variables
            static == static_builtins(scenario)
            dynamic == dynamic_builtins(scenario)
            in_scope == F.node_scope # 0 /\ name \in DOMAIN heap[F.node_scope].attrs
            resolved == name \in DOMAIN variables \cup DOMAIN static \cup DOMAIN dynamic
                        \/ in_scope
            value == IF name \in DOMAIN variables THEN variables[name]
                     ELSE IF name \in DOMAIN static THEN static[name]
                     ELSE IF name \in DOMAIN dynamic THEN dynamic[name]
                     ELSE IF in_scope THEN heap[F.node_scope].attrs[name]
                     ELSE null_
        IN  /\ FNext.stack = push(F.stack, value)
            /\ FNext.pc = F.pc + 1
            /\ errors' = IF resolved THEN errors
                         ELSE errors \cup {Error("Unbound name", name)}]_vars

\* a name that is a static and a dynamic builtin has been looked up in the
\* scope of a node
C7_Witness ==
    /\ scenario.family = "names"
    /\ "both" \in DOMAIN scenario.DYNAMIC_FUNCTIONS
    /\ status = "running"
    /\ F.node_scope # 0
    /\ F.pc > 0
    /\ F.code[F.pc] = I1("Name", "both")
    /\ peek(F.stack) = <<Host("len")>>

\* C8: simplifying a simplified tree gives the same tree, with the same
\* StoreGlobal bindings in the same order.
C8_SimplifyIdempotent == Len(simp) = 2 => simp[2] = simp[1]

\* the Call of a program of the family calls, with the values of its arguments
CallExpr == scenario.ast.expressions[2].expr

CallArgs == [i \in 1..Len(CallExpr.args) |-> CallExpr.args[i].value]

CallKwargs ==
    [n \in {CallExpr.keyword_args[i].name : i \in 1..Len(CallExpr.keyword_args)} |->
        CallExpr.keyword_args[CHOOSE i \in 1..Len(CallExpr.keyword_args) :
                                  CallExpr.keyword_args[i].name = n].expr.value]

\* C9: a Call on a vector of objects gives each element in index order to
\* call_helper with the positional and keyword arguments of the Call, and
\* leaves one value where the callable and the arguments were: the result of
\* the element when there is one element, the composition of the results in
\* the order of the calls when there are more.
C9_CallInOrder ==
    /\ []((scenario.family = "calls" /\ Len(frames) >= 1 /\ frames[1].pending.kind = "call") =>
            LET p == frames[1].pending
            IN  /\ Len(calls) = p.i + (IF Len(frames) > 1 THEN 1 ELSE 0)
                /\ calls = [j \in 1..Len(calls) |->
                               Invocation(ReprOf(p.callables[j]), CallArgs, CallKwargs)])
    /\ [][(InCall /\ F.pending.i = Len(F.pending.callables)) =>
            LET p == F.pending
                k == Len(p.callables)
            IN  /\ Len(p.results) = k
                /\ FNext.stack = Append(SubSeq(F.stack, 1, p.base),
                                        IF k = 1 THEN p.results[1] ELSE compose(p.results))
                /\ FNext.pc = F.pc + 1
                /\ FNext.pending = NoPending]_vars

\* (f; sample; f)(1, 2) has been called: 2, 2 and 2
C9_Witness ==
    /\ scenario.family = "calls"
    /\ Fetching
    /\ Instruction.op = "Pragma"
    /\ Len(calls) = 3
    /\ calls[1].function = "f" /\ calls[2].function = "sample" /\ calls[3].function = "f"
    /\ calls[1].args = <<V1(1), V1(2)>>
    /\ F.stack = <<<<Num(2), Num(2), Num(2)>>>>

\* C10: an element of the callable vector that cannot be called is passed
\* over without an error being recorded.
C10_NonCallableSkipped ==
    [][(/\ InCall
        /\ F.pending.i < Len(F.pending.callables)
        /\ Callee.k # "func"
        /\ ~IsCallable(Callee)) => errors' = errors]_vars

\* the number of times the node id occurs in the children of the nodes of h
RECURSIVE Occurrences(_, _, _)
Occurrences(h, id, parent) ==
    IF parent > Len(h) THEN 0
    ELSE Cardinality({i \in 1..Len(h[parent].children) : h[parent].children[i] = id})
         + Occurrences(h, id, parent + 1)

\* every node is a child of its parent once and of no other node
NodesUnique(h) ==
    \A id \in 1..Len(h) :
        /\ Occurrences(h, id, 1) = IF h[id].parent = 0 THEN 0 ELSE 1
        /\ h[id].parent # 0 => \E i \in 1..Len(h[h[id].parent].children) :
                                    h[h[id].parent].children[i] = id

\* the nodes of the vector that have no parent, each once, in order
RECURSIVE Orphans(_, _, _, _)
Orphans(h, v, i, out) ==
    IF i > Len(v) THEN out
    ELSE IF /\ v[i].k = "node" /\ h[v[i].id].parent = 0
            /\ \A j \in 1..Len(out) : out[j] # v[i].id
    THEN Orphans(h, v, i + 1, Append(out, v[i].id))
    ELSE Orphans(h, v, i + 1, out)

AppendRootStep == Fetching /\ Instruction.op = "AppendRoot"

\* C11: through all Append, Prepend and AppendRoot instructions every node has
\* at most one parent and occurs at most once among the children of all nodes;
\* an AppendRoot instruction adds to the children of the root exactly the nodes
\* of the popped vector that have no parent, and leaves the parent of every
\* node that has one, and the children of every other node, as they are
C11_NodeUniqueness ==
    /\ [](NodesUnique(heap))
    /\ [][AppendRootStep =>
            /\ Len(heap') = Len(heap)
            /\ heap'[RootId].children =
                   heap[RootId].children \o Orphans(heap, peek(F.stack), 1, <<>>)
            /\ \A id \in 1..Len(heap) :
                   /\ heap[id].parent # 0 => heap'[id].parent = heap[id].parent
                   /\ id # RootId => heap'[id].children = heap[id].children]_vars

\* a run in which a node that was appended to a parent came to AppendRoot again
\* and stayed where it was
C11_Witness ==
    /\ scenario.family = "nodes"
    /\ status = "returned"
    /\ heap[HostNode].parent \notin {0, RootId}
    /\ heap[heap[HostNode].parent].parent = RootId
    /\ \E id \in 1..Len(heap) : id > HostNode /\ heap[id].kind = "held"

\* the ids of the nodes of a vector, in order
RECURSIVE NodeIds(_, _)
NodeIds(v, i) ==
    IF i > Len(v) THEN <<>>
    ELSE IF v[i].k = "node" THEN <<v[i].id>> \o NodeIds(v, i + 1)
    ELSE NodeIds(v, i + 1)

\* the nodes of the vectors at offsets i..0 of the stack, deepest first
RECURSIVE ChildIds(_, _)
ChildIds(stack, i) ==
    IF i < 0 THEN <<>> ELSE NodeIds(peek_at(stack, i), 1) \o ChildIds(stack, i - 1)

AttachStep == Fetching /\ Instruction.op \in {"Append", "Prepend"}
AttachParents == peek_at(F.stack, IF Instruction.op = "Append" THEN Instruction.value ELSE 1)
AttachChildren ==
    IF Instruction.op = "Append" THEN ChildIds(F.stack, Instruction.value - 1)
    ELSE NodeIds(peek(F.stack), 1)

\* the parents are different nodes and none of them is one of the children
AttachDistinct ==
    LET ps == NodeIds(AttachParents, 1)
    IN  /\ \A a, b \in 1..Len(ps) : ps[a] = ps[b] => a = b
        /\ \A a \in 1..Len(ps), b \in 1..Len(AttachChildren) : ps[a] # AttachChildren[b]

\* the children that the step gave to the parent
Attached(parent) ==
    LET n == Len(heap'[parent].children) - Len(heap[parent].children)
    IN  IF Instruction.op = "Append"
        THEN SubSeq(heap'[parent].children, Len(heap[parent].children) + 1,
                    Len(heap'[parent].children))
        ELSE SubSeq(heap'[parent].children, 1, n)

\* a child that can be attached itself: it has no parent and is not a
\* repetition of an earlier child
Free(t) ==
    /\ heap[AttachChildren[t]].parent = 0
    /\ \A u \in 1..(t - 1) : AttachChildren[u] # AttachChildren[t]

\* every parent got the children in the order of the child vectors; the last
\* element of the parent vector got the originals (all of them, or the free
\* ones only) and the others got copies
AttachedInOrder(all) ==
    \A j \in 1..Len(AttachParents) :
        AttachParents[j].k = "node" =>
            LET parent == AttachParents[j].id
                new == Attached(parent)
            IN  /\ Len(new) = Len(AttachChildren)
                /\ \A t \in 1..Len(new) :
                       /\ heap'[new[t]].parent = parent
                       /\ Structure(heap', new[t]) = Structure(heap, AttachChildren[t])
                       /\ IF j = Len(AttachParents) /\ (all \/ Free(t))
                          THEN new[t] = AttachChildren[t]
                          ELSE new[t] > Len(heap)

TopLevelLetNames(ast) ==
    {n \in {"x", "y", "a"} :
        \E i \in 1..Len(ast.expressions) :
            /\ ast.expressions[i].type = "Let"
            /\ \E b \in 1..Len(ast.expressions[i].bindings) :
                  \E k \in 1..Len(ast.expressions[i].bindings[b].names) :
                      ast.expressions[i].bindings[b].names[k] = n}

\* C13: after a run, plain or simplified, of a program that ends with the
\* pragma p = x, context.variables maps x, when a let at the top level binds
\* it, to the value that the reference in the pragma read: the most recent
\* binding of x.
C13_VariablesHoldLastBinding ==
    \A i \in 1..Len(runs) :
        (/\ scenario.family = "lets"
         /\ runs[i].status = "returned"
         /\ "x" \in TopLevelLetNames(scenario.ast)) =>
            /\ "x" \in DOMAIN runs[i].variables
            /\ runs[i].variables["x"] = runs[i].pragmas["p"]

\* the step starts the execution of a module
ModuleStarts == AtImport /\ Len(frames') = Len(frames) + 1

\* the step ends the execution of a module without an AssertionError
ModuleReturns == ModuleFinished /\ status' = "running"

\* C14: the Context of a module executed by Import starts with an empty
\* variables mapping and the path of the module; while a program executes, the
\* variables of every other context stay as they are, so the bindings of the
\* module never reach the importer's context.variables; errors, logs, pragmas
\* and the graph are the importer's and keep what the module added when it
\* returns; the importer gets one local for each requested name, in the order
\* requested: the module's variable of that name, or null.
C14_ImportContext ==
    /\ [][ModuleStarts =>
            /\ Len(contexts') = Len(contexts) + 1
            /\ FNext.ctx = Len(contexts')
            /\ contexts'[FNext.ctx].variables = EmptyDict
            /\ contexts'[FNext.ctx].path = LoadProgram(ImportFile).path
            /\ \A c \in 1..Len(contexts) : contexts'[c] = contexts[c]
            /\ UNCHANGED <<errors, logs, pragmas, heap>>]_vars
    /\ [][status = "running" =>
            \A c \in 1..Len(contexts) :
                (c # F.ctx /\ c <= Len(contexts')) =>
                    contexts'[c].variables = contexts[c].variables]_vars
    /\ [][ModuleReturns =>
            LET importer == frames[Len(frames) - 1]
                names == importer.pending.names
                module == contexts[F.ctx].variables
            IN  /\ Len(contexts') = Len(contexts) - 1
                /\ \A c \in 1..Len(contexts') : contexts'[c] = contexts[c]
                /\ errors \subseteq errors'
                /\ UNCHANGED <<logs, pragmas, heap>>
                /\ importer.own.lvars # F.own.lvars =>
                      FNext.lvars = importer.lvars \o
                          [i \in 1..Len(names) |->
                              IF names[i] \in DOMAIN module THEN module[names[i]]
                              ELSE null_]]_vars

\* w and x were imported from N: the importer has w, the node that N made is
\* in the graph and the error of N is among the errors
C14_Witness ==
    /\ scenario.family = "imports"
    /\ Len(runs) = 1
    /\ runs[1].status = "returned"
    /\ Error("Unbound name", "zz") \in runs[1].errors
    /\ Len(runs[1].graph.children) = 1
    /\ runs[1].graph.children[1].kind = "made"
    /\ runs[1].pragmas = [n \in {"p", "q"} |-> IF n = "p" THEN V1(6) ELSE null_]
    /\ DOMAIN runs[1].variables = {"a", "v", "w", "x"}

\* call_helper is about to bind the parameters of a Function
FunctionCalled == InCall /\ F.pending.i < Len(F.pending.callables) /\ Callee.k = "func"

\* the body of a Function has come to its end
FunctionEnds ==
    /\ status = "running"
    /\ F.kind = "call"
    /\ F.pending = NoPending
    /\ ~(F.pc >= 0 /\ F.pc < Len(F.code))

\* C15: a call of a Function binds the parameters, then executes the body from
\* its first instruction on the caller's value stack with context.path set to
\* the path of the function, then returns; at the return the value stack holds
\* one value more than before the body and the function's locals stack has the
\* depth it had after the binding, the parameters are then dropped and the path
\* of the caller is restored; with any other stacks the run is aborted with an
\* AssertionError.
C15_FunctionCallDiscipline ==
    /\ [][FunctionCalled =>
            /\ Len(frames') = Len(frames) + 1
            /\ FNext.kind = "call" /\ FNext.pc = 0 /\ FNext.code = Callee.program
            /\ FNext.stack = F.stack
            /\ FNext.ret.top = Len(F.stack)
            /\ FNext.ret.lvars_top = Len(FNext.lvars)
            /\ FNext.ret.m = Len(Callee.parameters)
            /\ FNext.ret.saved_path = contexts[F.ctx].path
            /\ contexts'[F.ctx].path = Callee.root_path]_vars
    /\ [][FunctionEnds =>
            IF Len(F.stack) = F.ret.top + 1 /\ Len(F.lvars) = F.ret.lvars_top
            THEN /\ status' = "running"
                 /\ Len(frames') = Len(frames) - 1
                 /\ FNext.stack = F.stack
                 /\ FNext.pending.results = Append(frames[Len(frames) - 1].pending.results,
                                                   F.stack[Len(F.stack)])
                 /\ CurrentLvars(frames', F.own.lvars, SubSeq(F.lvars, 1, Len(F.lvars) - F.ret.m))
                       = SubSeq(F.lvars, 1, Len(F.lvars) - F.ret.m)
                 /\ contexts'[F.ctx].path = F.ret.saved_path
            ELSE /\ status' = "AssertionError"
                 /\ UNCHANGED frames]_vars
    /\ [](\A i \in 1..Len(frames) :
            frames[i].kind = "call" => /\ i > 1
                                       /\ frames[i - 1].pending # NoPending
                                       /\ frames[i - 1].pending.kind = "call")

\* the body of h left a local behind: the value stack is as the return expects
\* it, the locals stack is one deeper, and the run was aborted
C15_Witness ==
    /\ scenario.family = "functions"
    /\ status = "AssertionError"
    /\ F.kind = "call"
    /\ F.pc = Len(F.code)
    /\ Len(F.stack) = F.ret.top + 1
    /\ Len(F.lvars) = F.ret.lvars_top + 1

\* the activations of the function whose locals stack is the object
Activations(fs, object) == {i \in 1..Len(fs) : fs[i].kind = "call" /\ fs[i].own.lvars = object}

\* the contents of the locals stack of the function before a call of it: those
\* of its innermost activation, or the stack that Func copied
LvarsOf(func) ==
    IF Activations(frames, func) = {} THEN func.lvars
    ELSE frames[CHOOSE i \in Activations(frames, func) :
                    \A j \in Activations(frames, func) : j <= i].lvars

ModuleEnds ==
    /\ status = "running"
    /\ F.kind = "import"
    /\ F.pending = NoPending
    /\ ~(F.pc >= 0 /\ F.pc < Len(F.code))

\* C17: a module executes on the stacks of its program, and the two stacks are
\* empty when the execution starts; when it ends with a stack that is not
\* empty the run is aborted with an AssertionError.
C17_ModuleStacksEmpty ==
    /\ [][ModuleStarts =>
            /\ FNext.own = OwnStacks(LoadProgram(ImportFile).path)
            /\ FNext.stack = <<>>
            /\ FNext.lvars = <<>>]_vars
    /\ [][(ModuleEnds /\ ~(F.stack = <<>> /\ F.lvars = <<>>)) =>
            status' = "AssertionError"]_vars

\* the activations that execute a program as a whole: the run and the modules
Executions == {i \in 1..Len(frames) : frames[i].kind \in {"run", "import"}}

\* C18: no program is being executed twice at the same time: the executions in
\* progress along the chain of imports and function calls are executions of
\* different programs.
C18_NoProgramReentered ==
    status = "running" =>
        \A i, j \in Executions : frames[i].own = frames[j].own => i = j

\* C19: the program that Program.optimize makes of an instruction list leaves
\* the same value stack, locals, graph and variables as the list itself.
C19_OptimizePreserves ==
    (scenario.family = "optimize" /\ Len(runs) = 2) =>
        /\ runs[1].status = runs[2].status
        /\ runs[1].stack = runs[2].stack
        /\ runs[1].lvars = runs[2].lvars
        /\ runs[1].graph = runs[2].graph
        /\ runs[1].variables = runs[2].variables

\* C20: for x + y*z the program with the fused MulAdd leaves the value that
\* the program with Mul; Add leaves: the pragma p takes the same value in the
\* optimised and in the unoptimised run.
C20_MulAddPreserves ==
    (scenario.family = "muladd" /\ Len(runs) = 2) =>
        /\ runs[1].status = runs[2].status
        /\ runs[1].pragmas["p"] = runs[2].pragmas["p"]

\* the instruction about to be executed is a jump that will be taken
JumpTaken ==
    /\ Fetching
    /\ Instruction.op \in JumpOps
    /\ CASE Instruction.op = "Jump" -> TRUE
         [] Instruction.op = "BranchTrue" -> as_bool(peek(F.stack))
         [] Instruction.op = "BranchFalse" -> ~as_bool(peek(F.stack))
         [] Instruction.op = "Next" ->
                F.loops[Len(F.loops)].position >= Len(F.loops[Len(F.loops)].source)
         [] Instruction.op = "PushNext" ->
                F.loops[Len(F.loops)].position = Len(F.loops[Len(F.loops)].source)

\* C21: a jump that is taken continues at the instruction right after the
\* Label it names, in the same program; the program counter of every
\* activation stays between 0 and the length of its program, and a run
\* returns only with the program counter at the length of the program.
C21_JumpsLandAfterLabel ==
    /\ [][JumpTaken =>
            /\ Len(frames') = Len(frames)
            /\ FNext.code = F.code
            /\ FNext.pc \in 1..Len(F.code)
            /\ F.code[FNext.pc].op = "Label"
            /\ F.code[FNext.pc].label = Instruction.label]_vars
    /\ [](\A i \in 1..Len(frames) : frames[i].pc \in 0..Len(frames[i].code))
    /\ [][(status = "running" /\ status' = "returned") =>
            Len(frames) = 1 /\ F.pc = Len(F.code)]_vars

\* a jump back to the Label at the start of a loop has been taken
C21_Witness ==
    /\ Fetching
    /\ Len(frames) = 1
    /\ F.pc >= 1
    /\ F.code[F.pc].op = "Label"
    /\ Instruction.op \in {"Next", "PushNext"}
    /\ \E e \in executed : e > F.pc /\ F.code[e + 1].op = "Jump"
                                   /\ F.code[e + 1].label = F.code[F.pc].label

\* the loop an activation is in
LoopSource(f) == f.loops[Len(f.loops)]

\* the number of groups of n consecutive items a source of the given length has
Groups(length, n) == (length + n - 1) \div n

RECURSIVE LoopValue(_, _, _)
\* the composition of what LoopBody gives for the groups t, t + 1, ... of the
\* source: the items of each group, those past the end null
LoopValue(names, source, t) ==
    LET n == Len(names)
    IN  IF t >= Groups(Len(source), n) THEN null_
        ELSE (IF n = 1 THEN item(source, t)
              ELSE item(source, n * t + 1) \o item(source, n * t))
             \o LoopValue(names, source, t + 1)

\* C22: a For loop with n names over a source of length L runs its body
\* ceil(L/n) times; each run binds the next n items to the names in the order
\* of declaration (a name past the end of the source takes what Vector.item
\* gives there); the loop leaves
\* one value, the composition of the body's results in order (null when
\* L = 0), and its n locals are removed.
C22_ForLoop ==
    /\ [][(Fetching /\ Instruction.op = "Next" /\ ~JumpTaken) =>
            LET n == Instruction.value
                loop == LoopSource(F)
            IN  /\ Len(FNext.lvars) = Len(F.lvars)
                /\ \A k \in 0..(n - 1) :
                       peek_at(FNext.lvars, n - 1 - k) = item(loop.source, loop.position + k)
                /\ \A k \in n..(Len(F.lvars) - 1) :
                       peek_at(FNext.lvars, k) = peek_at(F.lvars, k)
                /\ LoopSource(FNext).iterations = loop.iterations + 1]_vars
    /\ [][(Fetching /\ Instruction.op = "EndForCompose") =>
            LET n == F.code[F.pc].value
                loop == LoopSource(F)
                m == Groups(Len(loop.source), n)
            IN  /\ F.code[F.pc].op = "LocalDrop"
                /\ \E a \in 1..Len(F.code) :
                       /\ F.code[a].op = "Next"
                       /\ a + F.code[a].offset = F.pc - 1
                       /\ F.code[a].value = n
                /\ loop.iterations = m
                /\ Len(FNext.stack) = Len(F.stack) - m + 1
                /\ peek(FNext.stack) = compose(pop_tuple(F.stack, m))]_vars
    /\ [][(Fetching /\ Instruction.op = "LocalDrop"
              /\ F.pc + 2 <= Len(F.code) /\ F.code[F.pc + 2].op = "EndForCompose") =>
            FNext.lvars = drop(F.lvars, Instruction.value)]_vars
    /\ [](scenario.family = "loops" /\ Len(runs) >= 1 =>
            /\ runs[1].status = "returned"
            /\ runs[1].pragmas["p"] =
                   LoopValue(scenario.ast.expressions[1].expr.names, scenario.variables["v"], 0))

\* a loop with two names over a source of three items has run its body twice
C22_Witness ==
    /\ scenario.family = "loops"
    /\ scenario.ast.expressions[1].expr.source = Name("v")
    /\ Len(scenario.ast.expressions[1].expr.names) = 2
    /\ Len(scenario.variables["v"]) = 3
    /\ Len(runs) = 0
    /\ Fetching
    /\ Instruction.op = "Pragma"
    /\ peek(F.stack) = <<Num(8), Num(7), Num(9)>>
    /\ F.lvars = <<>>

\* C23: the loops of an activation nest as a stack. BeginFor adds a loop on
\* top of those there are; Next and PushNext change the innermost loop only;
\* EndFor and EndForCompose remove the innermost loop and leave the source,
\* position and iteration count of the loops around it as they were; no other
\* instruction changes a loop, and a program that has reached its end has no
\* loop left.
C23_LoopsNest ==
    /\ [][(Fetching /\ Instruction.op = "BeginFor") =>
            /\ drop(FNext.loops, 1) = F.loops
            /\ LoopSource(FNext) = [source |-> peek(F.stack), position |-> 0,
                                    iterations |-> 0]]_vars
    /\ [][(Fetching /\ Instruction.op \in {"Next", "PushNext"}) =>
            /\ Len(FNext.loops) = Len(F.loops)
            /\ drop(FNext.loops, 1) = drop(F.loops, 1)
            /\ LoopSource(FNext).source = LoopSource(F).source]_vars
    /\ [][(Fetching /\ Instruction.op \in {"EndFor", "EndForCompose"}) =>
            /\ F.loops # <<>>
            /\ FNext.loops = drop(F.loops, 1)]_vars
    /\ [][(Fetching /\ Instruction.op \notin {"BeginFor", "Next", "PushNext", "EndFor",
                                               "EndForCompose"}) =>
            \A k \in 1..Len(frames) :
                k <= Len(frames') => frames'[k].loops = frames[k].loops]_vars
    /\ [](\A k \in 1..Len(frames) :
            frames[k].pc = Len(frames[k].code) => frames[k].loops = <<>>)

\* an inner loop has just ended inside the second run of the body of the loop
\* around it
C23_Witness ==
    /\ scenario.family = "nested"
    /\ Fetching
    /\ F.pc >= 1
    /\ F.code[F.pc].op = "EndForCompose"
    /\ Len(F.loops) = 1
    /\ LoopSource(F).iterations = 2
    /\ LoopSource(F).position = 2
    /\ LoopSource(F).source = Pair

\* the expressions a simplified sequence is packed from
Packed(expr) ==
    IF expr.type = "InlineSequence" THEN expr.expressions
    ELSE IF expr = NoOp THEN <<>> ELSE <<expr>>

\* the additions among the expressions, in order
Additions(exprs) == SelectSeq(exprs, LAMBDA e : e.type = "Add")

\* the loop of a program of one pragma
PragmaLoop(ast) == ast.expressions[1].expr

\* C24: a For over a literal source is unrolled into ceil(L/n) copies of its
\* body, the copy for group t specialised with the items n*t, n*t+1, ... that
\* Next binds in the t-th run of the body, the last group included when L is
\* not a multiple of n; the program compiled from the unrolled tree leaves
\* what the loop run by the virtual machine leaves.
C24_UnrollMatchesLoop ==
    /\ (scenario.family = "unroll" /\ Len(simp) >= 1) =>
          LET loop == PragmaLoop(scenario.ast)
              n == Len(loop.names)
              copies == Additions(Packed(PragmaLoop(simp[1])))
          IN  /\ Len(copies) = Groups(Len(loop.source.value), n)
              /\ \A t \in 1..Len(copies) :
                     /\ copies[t].left = Literal(item(loop.source.value, n * (t - 1)))
                     /\ copies[t].right = Name("a")
    /\ (scenario.family \in {"unroll", "loops", "nested"} /\ Len(runs) = 2) =>
          /\ runs[1].status = "returned"
          /\ runs[2] = runs[1]
    /\ (scenario.family = "unroll" /\ Len(runs) >= 1) =>
          LET loop == PragmaLoop(scenario.ast)
              n == Len(loop.names)
              source == loop.source.value
          IN  runs[1].pragmas["p"] =
                Flatten([t \in 1..Groups(Len(source), n) |->
                    (IF n = 1 THEN null_ ELSE item(source, n * (t - 1) + 1))
                    \o V1(item(source, n * (t - 1))[1].num + 1)])

\* the unrolled loop with two names over three items has run after the loop
\* itself: two copies, the second with the last name null
C24_Witness ==
    /\ scenario.family = "unroll"
    /\ Len(PragmaLoop(scenario.ast).names) = 2
    /\ Len(PragmaLoop(scenario.ast).source.value) = 3
    /\ Len(runs) = 2
    /\ PragmaLoop(simp[1]) =
          InlineSequence(<<Literal(V1(8)), Binary("Add", Literal(V1(7)), Name("a")),
                           Binary("Add", Literal(V1(9)), Name("a"))>>)
    /\ runs[2].pragmas["p"] = <<Num(8), Num(8), Num(10)>>

\* the number of SetNodeScope instructions before the address pc whose
\* ClearNodeScope comes at pc or later
ScopeDepth(code, pc) ==
    Cardinality({a \in 1..pc : code[a].op = "SetNodeScope"})
    - Cardinality({a \in 1..pc : code[a].op = "ClearNodeScope"})

\* the nodes on the stack under its top
NodesBelowTop(stack) ==
    {stack[k][1].id : k \in {j \in 1..(Len(stack) - 1) :
                                Len(stack[j]) = 1 /\ stack[j][1].k = "node"}}

\* the vector is one node
SingleNode(v) == Len(v) = 1 /\ v[1].k = "node"

\* C25: SetNodeScope and ClearNodeScope work as a push and a pop: SetNodeScope
\* on a node makes the attributes of that node the active scope; the
\* ClearNodeScope of an Attributes expression that is not inside another
\* leaves no scope active; the ClearNodeScope of an Attributes expression
\* inside a binding of another node makes the attributes of that other node,
\* which is still on the stack, the active scope again.
C25_NodeScopeNests ==
    /\ [][(Fetching /\ Instruction.op = "SetNodeScope" /\ SingleNode(peek(F.stack))) =>
            FNext.node_scope = peek(F.stack)[1].id]_vars
    /\ [][(Fetching /\ Instruction.op = "ClearNodeScope"
              /\ ScopeDepth(F.code, F.pc) = 1) =>
            FNext.node_scope = 0]_vars
    /\ [][(Fetching /\ Instruction.op = "ClearNodeScope"
              /\ ScopeDepth(F.code, F.pc) > 1) =>
            FNext.node_scope \in NodesBelowTop(F.stack)]_vars

\* C26: while the bindings of an Attributes expression are evaluated, the
\* active scope is the attribute map of the node that receives them, in the
\* form for several nodes the element that PushNext pushed: when an Attribute
\* instruction sets an attribute of a node, the scope is that node's, so that
\* a binding reads what the bindings before it set on the same node.
C26_ScopeIsReceiver ==
    /\ [](Fetching /\ Instruction.op = "Attribute" /\ SingleNode(peek_at(F.stack, 1)) =>
            F.node_scope = peek_at(F.stack, 1)[1].id)
    /\ [](Fetching /\ Instruction.op = "Name" /\ ScopeDepth(F.code, F.pc) > 0
            /\ SingleNode(peek(F.stack)) =>
            F.node_scope = peek(F.stack)[1].id)
    /\ [](scenario.family = "scopes" /\ status = "returned" =>
            /\ errors = {}
            /\ \A k \in 1..Len(heap) :
                   ("x" \in DOMAIN heap[k].attrs /\ heap[k].kind = "a") =>
                       /\ "w" \in DOMAIN heap[k].attrs
                       /\ heap[k].attrs["w"] \in {heap[k].attrs["x"],
                                                  add(heap[k].attrs["x"], One.value),
                                                  add(heap[k].attrs["x"], heap[k].attrs["size"])})

\* C27 as stated: LocalPush n takes n values off the value stack and makes
\* them n locals; LocalDrop n removes the n most recent locals.
C27_LocalPushPopsN ==
    /\ [][(Fetching /\ Instruction.op = "LocalPush") =>
            /\ Len(F.stack) >= Instruction.value
            /\ FNext.stack = drop(F.stack, Instruction.value)
            /\ Len(FNext.lvars) = Len(F.lvars) + Instruction.value]_vars
    /\ [][(Fetching /\ Instruction.op = "LocalDrop") =>
            FNext.lvars = SubSeq(F.lvars, 1, Len(F.lvars) - Instruction.value)]_vars

\* C27, amended: LocalPush n takes one vector off the value stack and makes n
\* locals of it: the vector itself when n = 1, otherwise its items 0 to n-1 in
\* order, the last item the most recent local; LocalDrop n removes the n most
\* recent locals.
C27_LocalPushSplitsOne ==
    /\ [][(Fetching /\ Instruction.op = "LocalPush") =>
            LET n == Instruction.value
                r1 == peek(F.stack)
            IN  /\ FNext.stack = drop(F.stack, 1)
                /\ Len(FNext.lvars) = Len(F.lvars) + n
                /\ SubSeq(FNext.lvars, 1, Len(F.lvars)) = F.lvars
                /\ n = 1 => peek(FNext.lvars) = r1
                /\ n > 1 => \A k \in 0..(n - 1) :
                               peek_at(FNext.lvars, n - 1 - k) = item(r1, k)]_vars
    /\ [][(Fetching /\ Instruction.op = "LocalDrop") =>
            FNext.lvars = SubSeq(F.lvars, 1, Len(F.lvars) - Instruction.value)]_vars

\* LocalPush 2 has made two locals of the one vector (1, 2)
C27_Witness ==
    /\ Fetching
    /\ F.pc >= 1
    /\ F.code[F.pc].op = "LocalPush"
    /\ F.code[F.pc].value = 2
    /\ F.stack = <<>>
    /\ Len(F.lvars) >= 2
    /\ peek_at(F.lvars, 1) = V1(1)
    /\ peek_at(F.lvars, 0) = V1(2)

\* the bindings of the Let statements among the expressions
LetBindings(exprs) ==
    {exprs[k].bindings[j] : <<k, j>> \in
        {kj \in (1..Len(exprs)) \X (1..4) :
            exprs[kj[1]].type = "Let" /\ kj[2] <= Len(exprs[kj[1]].bindings)}}

\* the bindings of the InlineLet expressions of the pragmas among the
\* expressions
InlineLetBindings(exprs) ==
    {exprs[k].expr.bindings[1] : k \in
        {j \in 1..Len(exprs) : exprs[j].type = "Pragma" /\ exprs[j].expr.type = "InlineLet"}}

\* C28: the simplification of Let and InlineLet removes the bindings whose
\* right-hand side folds to a literal and keeps every other binding. In the
\* programs of lets the run-time variable v is never bound by a let and a is
\* not bound before the first statement: the simplified program has no Let
\* binding with a literal right-hand side, it keeps every binding to v, of a
\* Let or an InlineLet, and it keeps a first binding to a; a reference to a
\* name whose only binding is kept stays that name.
C28_LetSimplify ==
    (scenario.family = "lets" /\ Len(simp) >= 1) =>
        LET before == scenario.ast.expressions
            after == simp[1].expressions
            first == before[1]
        IN  /\ \A b \in LetBindings(after) : ~IsLiteral(b.expr)
            /\ \A b \in LetBindings(before) :
                   b.expr = Name("v") => b \in LetBindings(after)
            /\ \A b \in InlineLetBindings(before) :
                   b.expr = Name("v") => b \in InlineLetBindings(after)
            /\ (first.type = "Let" /\ first.bindings[1].expr = Name("a")) =>
                   /\ first.bindings[1] \in LetBindings(after)
                   /\ (Len(before) = 2 =>
                          \E k \in 1..Len(after) : after[k] = Pragma("p", Name("x")))

\* C29: an expression that simplify rewrites because an operand is a literal
\* has the value of the expression it was written as, for every value of the
\* other operand, those of a length that makes the arithmetic null included:
\* the pragma p takes the same value in the run of the program and in the run
\* of the simplified program.
C29_RewritesPreserve ==
    (scenario.family = "algebra" /\ Len(runs) = 2) =>
        /\ runs[2].status = runs[1].status
        /\ runs[2].pragmas["p"] = runs[1].pragmas["p"]

\* the length of the compile-time name list at every instruction of the
\* program that is compiled from the tree and not optimized
CompiledDepths(ast) == Compile(ast, NewProgram(<<>>)).depths

\* the instructions 'Literal null; LocalPush n' of a loop, which For._compile
\* adds after it has put the loop names on the name list, and its
\* EndForCompose, which it adds before it takes them off
ForPrologue(code, a) ==
    \/ a >= 2 /\ code[a - 1].op = "BeginFor" /\ code[a].op = "Literal"
    \/ a >= 3 /\ code[a - 2].op = "BeginFor" /\ code[a].op = "LocalPush"
    \/ code[a].op = "EndForCompose"

\* C30: while the program runs, the depth of the run-time locals is the
\* length the compile-time name list had when the instruction about to be
\* executed was compiled (the instructions that For._compile adds between
\* its change of the name list and the matching LocalPush or LocalDrop
\* aside), so that LocalLoad k reads the innermost visible
\* binding of its name: a name bound before a let of several names, an inline
\* let, a loop or an import, and read after it, has the value it was bound to.
C30_LocalsDepth ==
    (scenario.family = "depths" /\ Len(runs) = 1) =>
        /\ (status = "running" /\ Len(frames) = 1 /\ Fetching
              /\ ~ForPrologue(F.code, F.pc + 1)) =>
                Len(F.lvars) = CompiledDepths(scenario.ast)[F.pc + 1]
        /\ runs[1].pragmas["p"] = V1(7)

----------------------------------------------------------------------------
(* Node objects of the tree under Expression.simplify *)

\* a node with the nodes below it, parents first
RECURSIVE Descendants(_, _), DescendantsOf(_, _, _)
Descendants(h, id) == <<id>> \o DescendantsOf(h, h[id].children, 1)
DescendantsOf(h, ids, i) ==
    IF i > Len(ids) THEN <<>> ELSE Descendants(h, ids[i]) \o DescendantsOf(h, ids, i + 1)

\* the node objects that a tree holds, place by place
RECURSIVE TreeNodes(_, _), TreeNodesOf(_, _, _), BindingNodes(_, _, _)
TreeNodes(h, expr) ==
    CASE expr.type \in {"Top", "Sequence", "InlineSequence"} -> TreeNodesOf(h, expr.expressions, 1)
      [] expr.type = "Literal" -> DescendantsOf(h, NodeIds(expr.value, 1), 1)
      [] expr.type \in {"Let", "StoreGlobal"} -> BindingNodes(h, expr.bindings, 1)
      [] expr.type \in {"Attributes", "FastAttributes"} ->
            TreeNodes(h, expr.node) \o BindingNodes(h, expr.bindings, 1)
      [] expr.type \in {"Append", "Prepend"} ->
            TreeNodes(h, expr.node) \o TreeNodes(h, expr.children)
      [] expr.type = "For" -> TreeNodes(h, expr.source) \o TreeNodes(h, expr.body)
      [] OTHER -> <<>>
TreeNodesOf(h, exprs, i) ==
    IF i > Len(exprs) THEN <<>> ELSE TreeNodes(h, exprs[i]) \o TreeNodesOf(h, exprs, i + 1)
BindingNodes(h, bindings, i) ==
    IF i > Len(bindings) THEN <<>>
    ELSE TreeNodes(h, bindings[i].expr) \o BindingNodes(h, bindings, i + 1)

\* what a node shows: kind, tags, attributes, children and parent
Seen(h, id) ==
    [kind |-> h[id].kind, tags |-> h[id].tags, attrs |-> h[id].attrs,
     children |-> h[id].children, parent |-> h[id].parent]

Distinct(ids) == \A i, j \in 1..Len(ids) : ids[i] = ids[j] => i = j
Range(ids) == {ids[i] : i \in 1..Len(ids)}

\* the tree that the step simplifies, and the step
SimplifyInput == IF simp = <<>> THEN scenario.ast ELSE simp[Len(simp)]
Simplifying == scenario.family = "objects" /\ Len(simp') = Len(simp) + 1

\* C31: a simplification leaves every node object of its input tree as it
\* was (tags, attributes, children, parent), and in the tree it returns every
\* node object stands in one place only and is none of the input's
C31_SimplifyCopiesNodes ==
    [][Simplifying =>
        LET input == TreeNodes(heap, SimplifyInput)
            output == TreeNodes(heap', simp'[Len(simp')])
        IN  /\ \A i \in 1..Len(input) : Seen(heap', input[i]) = Seen(heap, input[i])
            /\ Distinct(output)
            /\ Range(output) \cap Range(input) = {}]_vars

\* a tree in which a name bound to a node literal is used twice has been
\* simplified: the global binding and the two uses hold three nodes
C31_Witness ==
    /\ scenario.ast = Top(<<Let1("x", Obj(<<NodeP>>)), Name("x"), Name("x")>>)
    /\ simp # <<>>
    /\ Len(TreeNodes(heap, simp[1])) = 3
    /\ \E k \in 1..Len(heap) : k > Len(scenario.heap) /\ heap[k].kind = "p" /\ heap[k].parent = 0


----------------------------------------------------------------------------
(* The Node objects that the instructions of a program hold *)

RECURSIVE InstructionNodes(_, _)
InstructionNodes(code, a) ==
    IF a > Len(code) THEN <<>>
    ELSE (CASE code[a].op = "LiteralNode" -> NodeIds(<<code[a].value>>, 1)
            [] code[a].op = "LiteralNodes" -> NodeIds(code[a].value, 1)
            [] OTHER -> <<>>) \o InstructionNodes(code, a + 1)

\* the objects of the running program, with the nodes below them
ProgramNodes == Range(DescendantsOf(heap, InstructionNodes(frames[1].code, 1), 1))

LiteralStep ==
    /\ scenario.family = "objects"
    /\ Fetching
    /\ Instruction.op \in {"LiteralNode", "LiteralNodes"}

\* C32: while a program runs, the node objects of its instructions stay as
\* they were and have no parent; LiteralNode and LiteralNodes push objects
\* that did not exist before, equal in structure to the instruction's; and
\* the same program run again with the same variables builds an equal graph
C32_ProgramUnchanged ==
    /\ [][scenario.family = "objects" /\ status = "running" =>
            /\ \A id \in ProgramNodes : Seen(heap', id) = Seen(heap, id)
            /\ \A id \in Range(InstructionNodes(frames[1].code, 1)) : heap[id].parent = 0]_vars
    /\ [][LiteralStep =>
            LET v == IF Instruction.op = "LiteralNode" THEN <<Instruction.value>>
                     ELSE Instruction.value
                pushed == peek(frames'[Len(frames')].stack)
            IN  /\ Len(pushed) = Len(v)
                /\ \A i \in 1..Len(v) :
                      /\ pushed[i].id > Len(heap)
                      /\ Structure(heap', pushed[i].id) = Structure(heap, v[i].id)]_vars
    /\ [](scenario.family = "objects" /\ Len(runs) = 3 =>
            /\ runs[3].graph = runs[1].graph
            /\ runs[3].status = runs[1].status
            /\ runs[3].pragmas = runs[1].pragmas)

\* a program with node literals has run a second time and left a graph of
\* two nodes, one with a child, while its own objects have no child
C32_Witness ==
    /\ scenario.ast = Top(<<NodeAppend(Obj(<<NodeP>>), Obj(<<NodeC>>)), Obj(<<NodeC>>)>>)
    /\ Len(runs) = 3
    /\ Len(runs[3].graph.children) = 2
    /\ Len(runs[3].graph.children[1].children) = 1
    /\ heap[NodeP].children = <<>>


----------------------------------------------------------------------------
(* Attribute maps held by more than one node *)

\* the nodes that an Attribute or SetNodeScope instruction works on
ScopeStep == Fetching /\ Instruction.op \in {"Attribute", "SetNodeScope"}
ScopeTargets ==
    IF Instruction.op = "Attribute" THEN Range(NodeIds(peek_at(F.stack, 1), 1))
    ELSE IF SingleNode(peek(F.stack)) THEN {peek(F.stack)[1].id}
    ELSE {}

\* C33: an Attribute or SetNodeScope instruction leaves the attributes seen
\* through every other node as they were; a node it works on whose map was
\* shared gets a map of its own, and is not marked shared afterwards
C33_CopyOnWrite ==
    [][ScopeStep =>
        /\ \A j \in (1..Len(heap)) \ ScopeTargets : heap'[j].attrs = heap[j].attrs
        /\ \A t \in ScopeTargets :
              /\ ~heap'[t].shared
              /\ Aliases(heap', t) \subseteq ScopeTargets
              /\ heap[t].shared => MapOf(heap', t) # MapOf(heap, t)]_vars

\* in a first run a copy of a node of the program, which held the program
\* node's map, has a map of its own with the attribute k, and the program's
\* node, still marked shared, has no k
C33_Witness ==
    /\ scenario.family = "objects"
    /\ status = "running"
    /\ runs = <<>>
    /\ \E n \in 1..Len(heap) :
          /\ n > Len(scenario.heap)
          /\ heap[n].map # <<>>
          /\ MapOf(heap, n)[1] = n
          /\ ~heap[n].shared
          /\ "k" \in DOMAIN heap[n].attrs
          /\ \E m \in 2..Len(scenario.heap) :
                heap[m].kind = heap[n].kind /\ heap[m].shared /\ "k" \notin DOMAIN heap[m].attrs


----------------------------------------------------------------------------
(* The Attribute instruction *)

AttributeStep == Fetching /\ Instruction.op = "Attribute"

\* C34: Attribute name pops the value and leaves the vector below it on the
\* stack; every node of that vector gets the attribute when the value is not
\* empty, loses it when the value is null and the node has it, and is as it
\* was when the value is null and the node does not have it; nothing else of
\* the node changes
C34_AttributeSetsOrRemoves ==
    [][AttributeStep =>
        LET value == peek(F.stack)
            name == Instruction.value
            nodes == NodeIds(peek_at(F.stack, 1), 1)
        IN  /\ FNext.stack = drop(F.stack, 1)
            /\ peek(FNext.stack) = peek_at(F.stack, 1)
            /\ \A i \in 1..Len(nodes) :
                  LET old == heap[nodes[i]]
                      new == heap'[nodes[i]]
                  IN  /\ DOMAIN new.attrs =
                            IF Len(value) > 0 THEN DOMAIN old.attrs \cup {name}
                            ELSE DOMAIN old.attrs \ {name}
                      /\ \A n \in DOMAIN new.attrs :
                            new.attrs[n] = IF n = name THEN value ELSE old.attrs[n]
                      /\ (Len(value) = 0 /\ name \notin DOMAIN old.attrs) =>
                            Seen(heap', nodes[i]) = Seen(heap, nodes[i])
                      /\ [Seen(heap', nodes[i]) EXCEPT !.attrs = old.attrs]
                            = Seen(heap, nodes[i])]_vars

\* Attribute w with a null value has run on a copy of p, which had no w, and
\* then on a copy of q, which had one: the copy of q is on the stack without
\* a w
C34_Witness ==
    /\ scenario.family = "objects"
    /\ status = "running"
    /\ runs = <<>>
    /\ F.stack # <<>>
    /\ LET nodes == NodeIds(peek(F.stack), 1)
       IN  /\ Len(nodes) = 1
           /\ F.pc > 0
           /\ F.code[F.pc].op = "Attribute" /\ F.code[F.pc].value = "w"
           /\ heap[nodes[1]].kind = "q"
           /\ heap[nodes[1]].attrs = EmptyDict
           /\ heap[nodes[1] - 1].kind = "p" /\ DOMAIN heap[nodes[1] - 1].attrs = {"k"}
           /\ "w" \in DOMAIN heap[NodeQ].attrs


----------------------------------------------------------------------------
(* pop_composed *)

ComposeStep == Fetching /\ Instruction.op = "Compose"

\* the place in the result of the first element of entry i
RECURSIVE Offset(_, _)
Offset(vectors, i) == IF i = 1 THEN 0 ELSE Offset(vectors, i - 1) + Len(vectors[i - 1])

\* C39: Compose m takes the top m entries off the stack and puts one vector
\* in their place: its elements are those of the entries, the deepest entry
\* first, each entry's in order; it is numeric exactly when every entry that
\* is not empty is numeric; it is null when m = 0 or all the entries are
\* empty; and it is the entry itself when m = 1
C39_PopComposed ==
    [][ComposeStep =>
        LET m == Instruction.value
            base == Len(F.stack) - m
            vectors == [i \in 1..m |-> F.stack[base + i]]
            result == peek(FNext.stack)
            total == Offset(vectors, m + 1)
        IN  /\ Len(FNext.stack) = base + 1
            /\ \A d \in 1..base : FNext.stack[d] = F.stack[d]
            /\ Len(result) = total
            /\ \A i \in 1..m : \A k \in 1..Len(vectors[i]) :
                  result[Offset(vectors, i) + k] = vectors[i][k]
            /\ (total > 0) =>
                  (IsNumeric(result) <=>
                      \A i \in 1..m : Len(vectors[i]) = 0 \/ IsNumeric(vectors[i]))
            /\ (m = 0 \/ total = 0) => result = null_
            /\ (m = 1) => result = vectors[1]]_vars

\* Compose 3 has run on two numbers, a string and a number: the result is
\* the four elements in that order, and is not numeric
C39_Witness ==
    /\ scenario.family = "compose"
    /\ status = "running"
    /\ F.pc > 0
    /\ F.code[F.pc].op = "Compose" /\ F.code[F.pc].value = 3
    /\ F.stack = <<Pair \o <<Str("s")>> \o V1(7)>>


----------------------------------------------------------------------------
(* The end of Expression.simplify *)

\* C35: every simplification comes to an end: no tree makes the calls of
\* _simplify nest without end
C35_SimplifyTerminates == status # "StackOverflow"

----------------------------------------------------------------------------
\* the pairs of instructions that Program.optimize rewrites
Rewritten(first, second) ==
    \/ first.op = "Compose" /\ second.op \in {"Compose", "Append"}
    \/ first.op = "Mul" /\ second.op = "Add"

Optimised(code) == \A a \in 1..(Len(code) - 1) : ~Rewritten(code[a], code[a + 1])

\* every jump holds the distance to its label
Resolved(code) ==
    \A a \in 1..Len(code) :
        code[a].op \in JumpOps =>
            /\ a + code[a].offset \in 1..Len(code)
            /\ code[a + code[a].offset].op = "Label"
            /\ code[a + code[a].offset].label = code[a].label

\* the programs of the function bodies among the literals of a program
Bodies(code) ==
    {code[a].value[j] : <<a, j>> \in
        {<<a, j>> \in (1..Len(code)) \X (1..2) :
            /\ code[a].op = "Literal"
            /\ j <= Len(code[a].value)
            /\ code[a].value[j].k = "program"}}

RECURSIVE OptimisedAndLinked(_)
OptimisedAndLinked(code) ==
    /\ Optimised(code)
    /\ Resolved(code)
    /\ \A body \in Bodies(code) : body.linked /\ OptimisedAndLinked(body.code)

\* C36: a Program object never goes back from linked to unlinked; optimize on
\* a linked program raises and leaves the instructions alone; run on a program
\* that is not linked raises, and on a linked one it does not; what
\* Expression.compile returns is linked without an exception, so it was
\* optimised first, and so is the program of every function body in it: no
\* pair that optimize rewrites is left and every jump is resolved.
C36_UnlinkedToLinked ==
    [][/\ (prog'.id = prog.id /\ prog.linked) => prog'.linked
       /\ (prog'.id = prog.id /\ prog'.call = "optimize") =>
              IF prog.linked
              THEN /\ prog'.raised = "Cannot optimize a linked program"
                   /\ prog'.instructions = prog.instructions
              ELSE prog'.raised = "" /\ ~prog'.linked /\ Optimised(prog'.instructions)
       /\ (prog'.id = prog.id /\ prog'.call = "run") =>
              /\ prog'.raised = (IF prog.linked THEN "" ELSE "Program has not been linked")
              /\ prog'.instructions = prog.instructions
              /\ prog'.linked = prog.linked
       /\ (prog'.id = prog.id /\ prog'.call = "link") =>
              prog'.linked /\ prog'.raised = "" /\ Resolved(prog'.instructions)
       /\ prog'.call = "compile" =>
              /\ prog'.linked
              /\ prog'.raised = ""
              /\ OptimisedAndLinked(prog'.instructions)
       /\ prog'.call = "_compile" =>
              ~prog'.linked /\ \A body \in Bodies(prog'.instructions) :
                                   body.linked /\ OptimisedAndLinked(body.code)]_vars

\* optimize has been rejected on a linked program that holds the program of a
\* function body with a jump in it
C36_Witness ==
    /\ prog.call = "optimize"
    /\ prog.raised = "Cannot optimize a linked program"
    /\ \E body \in Bodies(prog.instructions) : \E a \in 1..Len(body.code) : body.code[a].op \in JumpOps


----------------------------------------------------------------------------
\* the data packets that an update has written
DataPackets(d) == {d.written[i] : i \in {i \in 1..Len(d.written) : d.written[i].label = SendDMXPacket}}

\* C37: an update writes a data packet only to a stream on which GetParameters
\* was answered; an update that finds no stream starts with an attempt to
\* connect, and writes no data packet unless the attempt and the handshake
\* succeed in it; an update in which a write of the data packet fails leaves
\* the stream closed and the driver without a stream.
C37_DataAfterHandshake ==
    [][dmx'.updates = dmx.updates + 1 =>
          /\ \A p \in DataPackets(dmx') : p.stream \in dmx'.answered
          /\ (dmx.stream.id = 0 /\ DataPackets(dmx') # {}) =>
                 /\ dmx'.opened = dmx.opened + 1
                 /\ dmx'.written[1] = [label |-> GetParameters, stream |-> dmx'.opened]
                 /\ dmx'.opened \in dmx'.answered
          /\ \A id \in dmx'.closed \ dmx.closed : dmx'.stream.id # id]_vars


----------------------------------------------------------------------------
\* C38: a lookup leaves the model at the most-recent end of the cache and the
\* others in their order; a call of get_buffers that builds buffers leaves at
\* most MaxModelCacheEntries models in the cache, what it removed are the
\* models that were at the least-recent end, in that order, none of them has
\* buffers left unless it is the model of the call, and the model of the call
\* is not among them.
C38_LeastRecentFirst ==
    [][/\ cache'.call = "get" =>
              /\ cache'.ModelCache[Len(cache'.ModelCache)] = cache'.name
              /\ Without(cache'.ModelCache, cache'.name) = Without(cache.ModelCache, cache'.name)
       /\ (cache'.call = "get_buffers" /\ cache'.buffers) =>
              /\ Len(cache'.ModelCache) <= MaxModelCacheEntries
              /\ cache.ModelCache = cache'.removed \o cache'.ModelCache
              /\ \A i \in 1..Len(cache'.removed) :
                     cache'.removed[i] # cache'.name => cache'.removed[i] \notin cache'.objects
              /\ \A i \in 1..Len(cache'.removed) : cache'.removed[i] # cache'.name]_vars

====
